---- MODULE Spec2Model ----
(***************************************************************************)
(* Entity Composition & Reference Resolution Engine of the entity editor:  *)
(* EntityManager (reference index, definition cache, dependency resolver), *)
(* calculate_entity_bounds, BodyPartsPanel (target filter, reference       *)
(* geometry reconciler, save handlers) and MainWindow (new/open/save).     *)
(***************************************************************************)
EXTENDS Integers, Sequences, FiniteSets, TLC

\* ------------------------------------------------------------------------
\* Python floats.  Vec2.x / Vec2.y are Python floats (IEEE-754 binary64):
\* a value is a sign and the set of positions of the 1-bits of its
\* magnitude (position i weighs 2^i); every arithmetic result is rounded to
\* MantissaBits significant bits, ties to even.  Zero is [neg FALSE, {}]
\* (Python compares -0.0 == 0.0, so one zero is enough).
\* ------------------------------------------------------------------------
MantissaBits == 53

MaxOf(S) == CHOOSE x \in S : \A y \in S : y <= x
MinOf(S) == CHOOSE x \in S : \A y \in S : x <= y

Bit(S, i) == IF i \in S THEN 1 ELSE 0

\* the carry into position i of A + B: some lower position generates a
\* carry (both bits set) and every position in between propagates it
CarryIn(A, B, lo, i) ==
  IF \E j \in lo .. (i - 1) :
        /\ j \in A /\ j \in B
        /\ \A k \in (j + 1) .. (i - 1) : k \in A \/ k \in B
  THEN 1 ELSE 0

\* magnitude A + B
AddBits(A, B) ==
  IF A = {} THEN B
  ELSE IF B = {} THEN A
  ELSE UNION { { i \in lo .. (hi + 1) :
                   (Bit(A, i) + Bit(B, i) + CarryIn(A, B, lo, i)) % 2 = 1 } :
               lo \in {MinOf(A \cup B)}, hi \in {MaxOf(A \cup B)} }

\* the borrow into position i of A - B: some lower position borrows (0 - 1)
\* and every position in between passes the borrow on (equal bits)
BorrowIn(A, B, lo, i) ==
  IF \E j \in lo .. (i - 1) :
        /\ j \notin A /\ j \in B
        /\ \A k \in (j + 1) .. (i - 1) : (k \in A) => (k \in B)
  THEN 1 ELSE 0

\* magnitude A - B, for A >= B
SubBits(A, B) ==
  IF B = {} THEN A
  ELSE UNION { { i \in lo .. hi :
                   (Bit(A, i) + Bit(B, i) + BorrowIn(A, B, lo, i)) % 2 = 1 } :
               lo \in {MinOf(A \cup B)}, hi \in {MaxOf(A \cup B)} }

\* magnitude A < B
BitsLess(A, B) ==
  /\ A # B
  /\ MaxOf((A \ B) \cup (B \ A)) \in B

\* round a magnitude to MantissaBits significant bits, ties to even
RoundCut(S, cut) ==
  IF (cut - 1) \in S /\ ((\E i \in S : i < cut - 1) \/ cut \in S)
  THEN AddBits({i \in S : i >= cut}, {cut})
  ELSE {i \in S : i >= cut}

RoundBits(S) ==
  IF S = {} THEN {}
  ELSE UNION { RoundCut(T, MaxOf(T) - (MantissaBits - 1)) : T \in {S} }

FZero == [neg |-> FALSE, bits |-> {}]

MkF(n, S) == IF S = {} THEN FZero ELSE [neg |-> n, bits |-> S]

\* -x
FNeg(x) == MkF(~x.neg, x.bits)

\* a + b for two float values
FAddV(a, b) ==
  IF a.neg = b.neg THEN MkF(a.neg, RoundBits(AddBits(a.bits, b.bits)))
  ELSE IF a.bits = b.bits THEN FZero
  ELSE IF BitsLess(a.bits, b.bits) THEN MkF(b.neg, RoundBits(SubBits(b.bits, a.bits)))
  ELSE MkF(a.neg, RoundBits(SubBits(a.bits, b.bits)))

\* x + y (the operands are evaluated once)
FAdd(x, y) == CHOOSE r \in { FAddV(a, b) : a \in {x}, b \in {y} } : TRUE

\* x - y
FSub(x, y) == FAdd(x, FNeg(y))

\* x / 2
FHalf(x) == MkF(x.neg, {i - 1 : i \in x.bits})

\* a < b for two float values
FLessV(a, b) ==
  IF a.neg /\ ~b.neg THEN TRUE
  ELSE IF ~a.neg /\ b.neg THEN FALSE
  ELSE IF a.neg THEN BitsLess(b.bits, a.bits)
  ELSE BitsLess(a.bits, b.bits)

\* x < y
FLess(x, y) == \E a \in {x}, b \in {y} : FLessV(a, b)

\* Python min(a, b) / max(a, b): the first argument wins unless the second
\* is strictly smaller / larger
FMin(a, b) == IF FLess(b, a) THEN b ELSE a
FMax(a, b) == IF FLess(a, b) THEN b ELSE a

RECURSIVE NatBits(_, _)
NatBits(n, i) ==
  IF n = 0 THEN {}
  ELSE (IF n % 2 = 1 THEN {i} ELSE {}) \cup NatBits(n \div 2, i + 1)

\* the float of a Python int
F(n) == IF n < 0 THEN MkF(TRUE, NatBits(-n, 0)) ELSE MkF(FALSE, NatBits(n, 0))

\* the double written 0.1 in a definition file
Tenth == [neg |-> FALSE,
          bits |-> {-4, -5, -8, -9, -12, -13, -16, -17, -20, -21, -24, -25,
                    -28, -29, -32, -33, -36, -37, -40, -41, -44, -45, -48,
                    -49, -52, -53, -55}]


\* ------------------------------------------------------------------------
\* Data model (entity_data.py)
\* ------------------------------------------------------------------------
\* Python's None where a definition or body part is expected
None == [none |-> TRUE]

Vec2(a, b) == [x |-> a, y |-> b]

\* BodyPart(name=..., position=Vec2(0,0), size=Vec2(64,64), pivot=center)
\* as _on_add_bodypart builds it; the other fields take the dataclass
\* defaults.  rotation and z_order keep their defaults 0 everywhere and
\* are left out.
NewBodyPart(n) ==
  [name |-> n, position |-> Vec2(F(0), F(0)), size |-> Vec2(F(64), F(64)),
   pivot |-> Vec2(F(32), F(32)), pivot_offset |-> Vec2(F(0), F(0)),
   visible |-> TRUE, part_type |-> "SIMPLE", entity_ref |-> "",
   flip_x |-> FALSE, flip_y |-> FALSE, pixel_scale |-> 1]

Hitbox(hx, hy, w, h, en) ==
  [x |-> hx, y |-> hy, width |-> w, height |-> h, enabled |-> en]

Entity(n, parts, hbs) ==
  [name |-> n, pivot |-> Vec2(F(0), F(0)), body_parts |-> parts,
   entity_hitboxes |-> hbs]

\* ------------------------------------------------------------------------
\* calculate_entity_bounds (geometry_utils.py).  The result is the tuple
\* the function returns: two components on the early return of line 12,
\* four on the returns of lines 58 and 64.
\* ------------------------------------------------------------------------
NoBox == [found |-> FALSE, min_x |-> FZero, min_y |-> FZero,
          max_x |-> FZero, max_y |-> FZero]

\* min(min_x, x0), ..., max(max_y, y1) against the running box; the first
\* contribution replaces the infinities
Extend(acc, x0, y0, x1, y1) ==
  IF ~acc.found
  THEN [found |-> TRUE, min_x |-> x0, min_y |-> y0, max_x |-> x1, max_y |-> y1]
  ELSE [found |-> TRUE,
        min_x |-> FMin(acc.min_x, x0), min_y |-> FMin(acc.min_y, y0),
        max_x |-> FMax(acc.max_x, x1), max_y |-> FMax(acc.max_y, y1)]

\* line 23: if not bp.visible: continue
Contributes_always(bp) == TRUE
Contributes(bp) == bp.visible

\* lines 30-31: w = bp.size.x, h = bp.size.y, of a sprite and of a
\* reference alike
PartSize_of_default(bp) == IF bp.part_type = "ENTITY_REF" THEN Vec2(F(64), F(64)) ELSE bp.size
PartSize(bp) == bp.size

\* lines 28-43 for one body part
ExtendByPart(acc, pos, size) ==
  Extend(acc, pos.x, pos.y, FAdd(pos.x, size.x), FAdd(pos.y, size.y))

RECURSIVE BoundsOfParts(_, _, _)
BoundsOfParts(parts, i, acc) ==
  IF i > Len(parts) THEN acc
  ELSE IF ~Contributes(parts[i]) THEN BoundsOfParts(parts, i + 1, acc)
  ELSE BoundsOfParts(parts, i + 1,
                     ExtendByPart(acc, parts[i].position, PartSize(parts[i])))

\* lines 51-54 for one hitbox at (x, y) = pivot + (hb.x, hb.y)
ExtendByHitbox(acc, x, y, hb) ==
  Extend(acc, x, y, FAdd(x, F(hb.width)), FAdd(y, F(hb.height)))

RECURSIVE BoundsOfHitboxes(_, _, _, _)
BoundsOfHitboxes(pivot, hbs, i, acc) ==
  IF i > Len(hbs) THEN acc
  ELSE IF ~hbs[i].enabled THEN BoundsOfHitboxes(pivot, hbs, i + 1, acc)
  ELSE BoundsOfHitboxes(pivot, hbs, i + 1,
                        ExtendByHitbox(acc, FAdd(pivot.x, F(hbs[i].x)),
                                       FAdd(pivot.y, F(hbs[i].y)), hbs[i]))

\* the box after the two loops (lines 14-54)
AccumulatedBox(entity) ==
  BoundsOfHitboxes(entity.pivot, entity.entity_hitboxes, 1,
                   BoundsOfParts(entity.body_parts, 1, NoBox))

\* max(width, 16.0) (line 64)
Floored_not(extent) == extent
Floored(extent) == FMax(extent, F(16))

\* lines 57-64
BoundsOfBox(acc) ==
  IF ~acc.found THEN <<F(0), F(0), F(64), F(64)>>
  ELSE <<acc.min_x, acc.min_y,
         Floored(FSub(acc.max_x, acc.min_x)),
         Floored(FSub(acc.max_y, acc.min_y))>>

calculate_entity_bounds(entity) ==
  IF entity.body_parts = <<>> /\ entity.entity_hitboxes = <<>>
  THEN <<F(64), F(64)>>
  ELSE BoundsOfBox(AccumulatedBox(entity))

\* ------------------------------------------------------------------------
\* BodyPartsPanel._update_ref_geometry (bodyparts_panel.py).  ref_entity is
\* what get_entity_manager().get_entity_def(bp.entity_ref) returned.  The
\* result holds the body part after the call, the returned value, and
\* whether the call raised instead of returning (unpacking a tuple that has
\* not four components raises ValueError before any field is written).
\* ------------------------------------------------------------------------
\* Pos + Size/2 + PivotOffset on one axis (lines 322-323)
WorldPivot1(pos, size, off) == FAdd(FAdd(pos, FHalf(size)), off)

WorldPivot(bp) ==
  Vec2(WorldPivot1(bp.position.x, bp.size.x, bp.pivot_offset.x),
       WorldPivot1(bp.position.y, bp.size.y, bp.pivot_offset.y))

\* off = -(min + w/2) (lines 317-318)
TargetPivotOffset(min, w) == FNeg(FAdd(min, FHalf(w)))

NewPos_stale_size(bp, w, h, off_x, off_y) ==
  Vec2(FSub(FSub(WorldPivot1(bp.position.x, bp.size.x, bp.pivot_offset.x),
                 FHalf(bp.size.x)), off_x),
       FSub(FSub(WorldPivot1(bp.position.y, bp.size.y, bp.pivot_offset.y),
                 FHalf(bp.size.y)), off_y))

\* New Pos = WorldPivot - NewSize/2 - NewPivotOffset, with the world pivot
\* of the body part as it is before any write (lines 322-327)
NewPos(bp, w, h, off_x, off_y) ==
  Vec2(FSub(FSub(WorldPivot1(bp.position.x, bp.size.x, bp.pivot_offset.x),
                 FHalf(w)), off_x),
       FSub(FSub(WorldPivot1(bp.position.y, bp.size.y, bp.pivot_offset.y),
                 FHalf(h)), off_y))

Returned(bp, r) == [bp |-> bp, ret |-> r, raised |-> FALSE]
Raised(bp) == [bp |-> bp, ret |-> FALSE, raised |-> TRUE]

WriteBack_size_only(bp, w, h, off_x, off_y, pos) ==
  LET c1  == bp.size.x # w \/ bp.size.y # h
      bp1 == IF c1 THEN [bp EXCEPT !.size = Vec2(w, h)] ELSE bp
      c2  == bp.pivot_offset.x # off_x \/ bp.pivot_offset.y # off_y
      bp2 == IF c2 THEN [bp1 EXCEPT !.pivot_offset = Vec2(off_x, off_y)] ELSE bp1
      c3  == bp.position.x # pos.x \/ bp.position.y # pos.y
      bp3 == IF c3 THEN [bp2 EXCEPT !.position = pos] ELSE bp2
  IN  Returned(bp3, c1)

\* the three compare-and-write blocks and the returned flag (lines 329-346)
WriteBack(bp, w, h, off_x, off_y, pos) ==
  LET c1  == bp.size.x # w \/ bp.size.y # h
      bp1 == IF c1 THEN [bp EXCEPT !.size = Vec2(w, h)] ELSE bp
      c2  == bp.pivot_offset.x # off_x \/ bp.pivot_offset.y # off_y
      bp2 == IF c2 THEN [bp1 EXCEPT !.pivot_offset = Vec2(off_x, off_y)] ELSE bp1
      c3  == bp.position.x # pos.x \/ bp.position.y # pos.y
      bp3 == IF c3 THEN [bp2 EXCEPT !.position = pos] ELSE bp2
  IN  Returned(bp3, c1 \/ c2 \/ c3)

\* lines 314-346, with b the value calculate_entity_bounds returned: the
\* unpacking into four names fails unless b has four components
ReconcileToBounds(bp, b) ==
  IF Len(b) # 4 THEN Raised(bp)
  ELSE LET off_x == TargetPivotOffset(b[1], b[3])
           off_y == TargetPivotOffset(b[2], b[4])
       IN  WriteBack(bp, b[3], b[4], off_x, off_y,
                     NewPos(bp, b[3], b[4], off_x, off_y))

_update_ref_geometry(bp, ref_entity) ==
  IF bp.entity_ref = "" THEN Returned(bp, FALSE)
  ELSE IF ref_entity = None THEN Returned(bp, FALSE)
  ELSE ReconcileToBounds(bp, calculate_entity_bounds(ref_entity))

\* ------------------------------------------------------------------------
\* Definition files.  A definition file <dir>/N.entdef is identified by its
\* bare name N; the reference index knows it under the keys N and N.entdef.
\* The disk maps every file name to the definition EntityDeserializer.load
\* returns for it, or to None when the file does not exist.
\* ------------------------------------------------------------------------
FileNames == {"A", "B", "C"}

\* sorted(FileNames)
NameOrder == <<"A", "B", "C">>

\* the file name f of the definition N (line 59)
Ext(n) == n \o ".entdef"

\* The project has two directories that are searched (lines 45-48): the
\* path of N.entdef in the entities directory is written N, its path in
\* the parts directory InParts(N).
InParts(n) == "parts/" \o n

Paths == FileNames \cup { InParts(n) : n \in FileNames }

\* a file the loader raises on, and one it returns nothing for
Unreadable == [raises |-> TRUE]

Blank == [nothing |-> TRUE]

IsDefinition(content) == content \notin {None, Unreadable, Blank}

\* what load(path) returns after save(entity, path): to_dict writes the
\* sprites before the references, a sprite without entity_ref and
\* pivot_offset, a reference without pivot; from_dict sets visible
StoredSprite(bp) ==
  [bp EXCEPT !.entity_ref = "", !.pivot_offset = Vec2(F(0), F(0)),
             !.visible = TRUE]

StoredRef(bp) ==
  [bp EXCEPT !.pivot = Vec2(FHalf(bp.size.x), FHalf(bp.size.y)),
             !.visible = TRUE]

IsRef(bp) == bp.part_type = "ENTITY_REF"

IsSprite(bp) == bp.part_type # "ENTITY_REF"

MapSeq(Op(_), s) == [i \in 1 .. Len(s) |-> Op(s[i])]

Stored(entity) ==
  [entity EXCEPT !.body_parts =
      MapSeq(StoredSprite, SelectSeq(entity.body_parts, IsSprite))
      \o MapSeq(StoredRef, SelectSeq(entity.body_parts, IsRef))]

\* ------------------------------------------------------------------------
\* The editor's objects as one record W, so that a handler is an operator
\* from the state before it to the state after it:
\*   disk      the definition files
\*   project   EntityManager._project is set
\*   cache     EntityManager._cache: per file None or the cached definition;
\*             fresh is FALSE once the file has been written after the load
\*   index     EntityManager._name_to_path: per name N the path stored under
\*             the keys N and N.entdef, "" when there are no such keys
\*   io        the calls of the loader (its paths), the number of directory
\*             scans and the calls of get_all_dependencies (their names)
\*             the handler has made so far
\*   entity    EditorState._entity
\*   filepath  the current file ("" for None)
\*   modified  MainWindow._is_modified
\*   sel       Selection._primary_part: None, [at |-> i] for body part i of
\*             the entity, or [bp |-> part] for a part of an entity that has
\*             been replaced since
\*   combo     the content of the reference combo box, with the index and the
\*             cache as they were when it was filled
\*   manager_first  EntityManager._on_entity_saved was connected to
\*             entity_saved before BodyPartsPanel._on_global_entity_saved
\*   ev        what the processing of the last save did, kept for the
\*             properties: the saved file, whether a cache entry was evicted,
\*             how many reconciliations returned True, how many times
\*             entity_modified was emitted, whether a cache entry loaded
\*             before the write was read
\* ------------------------------------------------------------------------
NoIndex == [n \in FileNames |-> ""]

NoCache == [p \in Paths |-> None]

NoCombo ==
  [items |-> {}, avail |-> {}, cur |-> "", index |-> NoIndex,
   cache |-> NoCache]

NoCalls == [loads |-> <<>>, scans |-> 0, walks |-> <<>>]

NoEvent == [saved |-> "", evicted |-> FALSE, changed |-> 0, reports |-> 0,
            stale_read |-> FALSE]

SaveEvent(f) == [NoEvent EXCEPT !.saved = f]

\* ------------------------------------------------------------------------
\* EntityManager (entity_manager.py)
\* ------------------------------------------------------------------------
\* os.walk over the entities directory, then over the parts directory:
\* keys are assigned, the later assignment stays, no key is removed
_scan_available_entities(index, disk) ==
  [n \in FileNames |->
     IF disk[InParts(n)] # None THEN InParts(n)
     ELSE IF disk[n] # None THEN n
     ELSE index[n]]

\* self._name_to_path.get(ref_name): the path, or "" for None
Resolve(index, ref_name) ==
  IF \E n \in FileNames : ref_name = n \/ ref_name = Ext(n)
  THEN index[CHOOSE n \in FileNames : ref_name = n \/ ref_name = Ext(n)]
  ELSE ""

Found(W, e) == [w |-> W, ent |-> e]

\* lines 97-101
Rescanned(W, ref_name) ==
  IF Resolve(W.index, ref_name) # "" THEN W
  ELSE [W EXCEPT !.index = _scan_available_entities(W.index, W.disk),
                 !.io.scans = @ + 1]

\* lines 108-109
ReadCached(W, p) ==
  Found([W EXCEPT !.ev.stale_read = @ \/ ~W.cache[p].fresh], W.cache[p].ent)

\* lines 114-120, after the loader has been called
Loaded_failure_kept(W, p) ==
  Found([W EXCEPT !.cache[p] = [ent |-> W.disk[p], fresh |-> TRUE]],
        IF IsDefinition(W.disk[p]) THEN W.disk[p] ELSE None)
Loaded(W, p) ==
  IF ~IsDefinition(W.disk[p]) THEN Found(W, None)
  ELSE Found([W EXCEPT !.cache[p] = [ent |-> W.disk[p], fresh |-> TRUE]],
             W.disk[p])

\* lines 112-120: the loader raises on a missing or an unreadable file
Load(W, p) == Loaded([W EXCEPT !.io.loads = Append(@, p)], p)

\* lines 103-120
Lookup_uncached(W, p) ==
  IF p = "" THEN Found(W, None)
  ELSE Load(W, p)
Lookup(W, p) ==
  IF p = "" THEN Found(W, None)
  ELSE IF W.cache[p] # None THEN ReadCached(W, p)
  ELSE Load(W, p)

LookupName(W, ref_name) == Lookup(W, Resolve(W.index, ref_name))

get_entity_def(W, ref_name) ==
  IF ~W.project THEN Found(W, None)
  ELSE IF ref_name = "" THEN Found(W, None)
  ELSE LookupName(Rescanned(W, ref_name), ref_name)

RECURSIVE get_all_dependencies(_, _, _)
RECURSIVE DepsOfEntity(_, _)
RECURSIVE DepsOfParts(_, _, _, _, _)
RECURSIVE DepsAfterSub(_, _, _, _, _)

\* the result holds the state after the call, the returned set and the
\* visited set, which the callers share
get_all_dependencies(W, entity_name, visited) ==
  DepsOfEntity(get_entity_def([W EXCEPT !.io.walks = Append(@, entity_name)],
                              entity_name),
               visited)

\* lines 131-148
DepsOfEntity(r, visited) ==
  IF r.ent = None THEN [w |-> r.w, deps |-> {}, visited |-> visited]
  ELSE DepsOfParts(r.w, r.ent.body_parts, 1, visited, {})

\* lines 145-146: deps.update(sub_deps)
MergeSubDeps_dropped(deps, ref_name, sub_deps) == deps \cup {ref_name}
MergeSubDeps(deps, ref_name, sub_deps) == deps \cup {ref_name} \cup sub_deps

\* the loop of lines 137-146 from body part i on
DepsOfParts(W, parts, i, visited, deps) ==
  IF i > Len(parts) THEN [w |-> W, deps |-> deps, visited |-> visited]
  ELSE IF IsRef(parts[i]) /\ parts[i].entity_ref # ""
          /\ parts[i].entity_ref \notin visited
  THEN DepsAfterSub(
         get_all_dependencies(W, parts[i].entity_ref,
                              visited \cup {parts[i].entity_ref}),
         parts, i, deps, visited \cup {parts[i].entity_ref})
  ELSE DepsOfParts(W, parts, i + 1, visited, deps)

\* visited is one set object, passed on and added to in place (lines 127-128,
\* 144-146): after the recursive call the caller sees what the callee added
VisitedAfter_copied(passed, after_sub) == passed
VisitedAfter(passed, after_sub) == after_sub

DepsAfterSub(sub, parts, i, deps, passed) ==
  DepsOfParts(sub.w, parts, i + 1, VisitedAfter(passed, sub.visited),
              MergeSubDeps(deps, parts[i].entity_ref, sub.deps))

\* sorted keys that do not end in .entdef (as a set; NameOrder orders it)
get_available_entity_names(W) == { n \in FileNames : W.index[n] # "" }

\* set_project(project) with a project: clear_cache, then the scan
set_project_cache_kept(W) ==
  [W EXCEPT !.project = TRUE,
            !.index = _scan_available_entities(NoIndex, W.disk),
            !.io.scans = @ + 1]
set_project(W) ==
  [W EXCEPT !.project = TRUE, !.cache = NoCache,
            !.index = _scan_available_entities(NoIndex, W.disk),
            !.io.scans = @ + 1]

\* ------------------------------------------------------------------------
\* Signals and the body parts panel (bodyparts_panel.py).  emit() calls the
\* connected slots one after the other before it returns; an exception that
\* leaves a slot ends that slot only.
\* ------------------------------------------------------------------------
\* Selection.selected_body_part
selected_body_part(W) ==
  IF W.sel = None THEN None
  ELSE IF "at" \in DOMAIN W.sel THEN W.entity.body_parts[W.sel.at]
  ELSE W.sel.bp

\* a write to the fields of the selected body part object
SetSelected(W, bp) ==
  IF "at" \in DOMAIN W.sel THEN [W EXCEPT !.entity.body_parts[W.sel.at] = bp]
  ELSE [W EXCEPT !.sel = [bp |-> bp]]

\* entity_modified: MainWindow._on_entity_modified
notify_entity_modified(W) ==
  [W EXCEPT !.modified = TRUE,
            !.ev.reports = IF W.ev.saved # "" THEN @ + 1 ELSE @]

RECURSIVE FilterCandidates(_, _, _, _, _)
RECURSIVE FilterStep(_, _, _, _, _)

\* lines 502-509: the candidates left after "Remove Self", in list order;
\* keep collects those that are not removed
FilterCandidates(W, candidates, i, current_name, keep) ==
  IF i > Len(NameOrder) THEN [w |-> W, keep |-> keep]
  ELSE IF NameOrder[i] \notin candidates
  THEN FilterCandidates(W, candidates, i + 1, current_name, keep)
  ELSE FilterStep(get_all_dependencies(W, NameOrder[i], {}),
                  candidates, i, current_name, keep)

FilterStep(r, candidates, i, current_name, keep) ==
  FilterCandidates(r.w, candidates, i + 1, current_name,
                   IF current_name \in r.deps THEN keep
                   ELSE keep \cup {NameOrder[i]})

WithCombo(r, available, current_name) ==
  [r.w EXCEPT !.combo = [items |-> r.keep, avail |-> available,
                         cur |-> current_name, index |-> r.w.index,
                         cache |-> r.w.cache]]

\* lines 493-495: "Remove Self"
RemoveSelf_kept(available, current_name) == available
RemoveSelf(available, current_name) == available \ {current_name}

\* self._state.current_filepath (line 489).  No code among the sources sets
\* the editor state's file path; it is taken to be the path the main window
\* keeps for the open document.
StateFilepath(W) == W.filepath

\* lines 486-512; the name of the current file is its basename without the
\* extension.  The "<ref> (Missing)" item added for a reference that is not
\* in the list stands for the reference the part already has.
PopulateRefCombo(W, available) ==
  IF StateFilepath(W) = ""
  THEN [W EXCEPT !.combo = [items |-> available, avail |-> available,
                            cur |-> "", index |-> W.index,
                            cache |-> W.cache]]
  ELSE WithCombo(FilterCandidates(W, RemoveSelf(available, StateFilepath(W)),
                                  1, StateFilepath(W), {}),
                 available, StateFilepath(W))

\* lines 446-573, the reference combo box
_update_properties(W) ==
  IF selected_body_part(W) = None THEN [W EXCEPT !.combo = NoCombo]
  ELSE IF IsRef(selected_body_part(W))
  THEN PopulateRefCombo(W, get_available_entity_names(W))
  ELSE W

\* bodypart_modified for the selected part (_on_bodypart_modified), then
\* entity_modified (notify_bodypart_modified)
notify_bodypart_modified(W) == notify_entity_modified(_update_properties(W))

\* history.execute(ModifyBodyPartCommand(bp, old, new)) on the selected
\* part: the command writes the fields and notifies, execute notifies
ExecuteModify(W, bp) ==
  notify_entity_modified(notify_bodypart_modified(SetSelected(W, bp)))

\* lines 847-865
_on_type_changed(W, new_type) ==
  _update_properties(
    ExecuteModify(W, [selected_body_part(W) EXCEPT !.part_type = new_type]))

\* lines 907-934; the unpacking of line 892 raises on a two-component tuple
ApplyAutoResize(W, rec) ==
  IF rec.raised \/ ~rec.ret THEN W
  ELSE _update_properties(ExecuteModify(W, rec.bp))

\* lines 890-905
AutoResizeTo(r) ==
  IF r.ent = None THEN r.w
  ELSE ApplyAutoResize(r.w, ReconcileToBounds(selected_body_part(r.w),
                                              calculate_entity_bounds(r.ent)))

AutoResize(W, ref_name) ==
  IF ref_name = "" THEN W ELSE AutoResizeTo(get_entity_def(W, ref_name))

\* lines 867-934
_on_entity_ref_changed(W, ref_name) ==
  AutoResize(
    ExecuteModify(W, [selected_body_part(W) EXCEPT !.entity_ref = ref_name]),
    ref_name)

\* lines 630-643; AddBodyPartCommand appends and notifies bodypart_added,
\* execute notifies entity_modified
PartNames == <<"BodyPart_0", "BodyPart_1", "BodyPart_2", "BodyPart_3">>

_on_add_bodypart(W) ==
  notify_entity_modified(notify_entity_modified(
    [W EXCEPT !.entity.body_parts =
        Append(@, NewBodyPart(PartNames[Len(@) + 1]))]))

\* lines 405-422: the list selects body part i
_on_list_selection_changed(W, i) ==
  _update_properties([W EXCEPT !.sel = [at |-> i]])

\* self._update_ref_geometry(bp) for body part i of the entity
PutReconciled(W, i, rec) ==
  [w |-> [W EXCEPT !.entity.body_parts[i] = rec.bp],
   ret |-> rec.ret, raised |-> rec.raised]

ReconcileWith(r, i) ==
  PutReconciled(r.w, i, _update_ref_geometry(r.w.entity.body_parts[i], r.ent))

ReconcilePart(W, i) ==
  ReconcileWith(get_entity_def(W, W.entity.body_parts[i].entity_ref), i)

RECURSIVE ValidateFrom(_, _, _)
RECURSIVE ValidateStep(_, _, _)

\* lines 289-302, the loop from body part i on
ValidateFrom(W, i, changed) ==
  IF i > Len(W.entity.body_parts)
  THEN IF changed THEN notify_entity_modified(W) ELSE W
  ELSE IF IsRef(W.entity.body_parts[i]) /\ W.entity.body_parts[i].entity_ref # ""
  THEN ValidateStep(ReconcilePart(W, i), i, changed)
  ELSE ValidateFrom(W, i + 1, changed)

ValidateStep(r, i, changed) ==
  IF r.raised THEN r.w ELSE ValidateFrom(r.w, i + 1, changed \/ r.ret)

_validate_all_references(W) == ValidateFrom(W, 1, FALSE)

\* lines 253-258 (the entity is never None here)
_on_entity_loaded(W) == _validate_all_references(_update_properties(W))

\* lines 260-267
_on_global_entity_saved(W, filepath) ==
  IF selected_body_part(W) # None THEN _update_properties(W) ELSE W

RECURSIVE RefSavedFrom(_, _, _, _)
RECURSIVE RefSavedStep(_, _, _, _)

\* line 280: which body parts the saved name selects
RefersTo(bp, name) == IsRef(bp) /\ bp.entity_ref = name

\* lines 278-287, the loop from body part i on
RefSavedFrom(W, name, i, count) ==
  IF i > Len(W.entity.body_parts)
  THEN IF count > 0 THEN _update_properties(notify_entity_modified(W)) ELSE W
  ELSE IF RefersTo(W.entity.body_parts[i], name)
  THEN RefSavedStep(ReconcilePart(W, i), name, i, count)
  ELSE RefSavedFrom(W, name, i + 1, count)

RefSavedStep(r, name, i, count) ==
  IF r.raised THEN r.w
  ELSE IF r.ret
  THEN RefSavedFrom([r.w EXCEPT !.ev.changed = @ + 1], name, i + 1, count + 1)
  ELSE RefSavedFrom(r.w, name, i + 1, count)

\* lines 269-287; the name is the basename of the path without extension
_on_referenced_entity_saved(W, filepath) ==
  IF W.entity = None THEN W ELSE RefSavedFrom(W, filepath, 1, 0)

\* SignalHub.notify_referenced_entity_saved: the panel is the subscriber
notify_referenced_entity_saved(W, k) == _on_referenced_entity_saved(W, k)

\* lines 76-78: del self._cache[k]
Evict_entry_kept(W, k) == [W EXCEPT !.ev.evicted = TRUE]
Evict(W, k) == [W EXCEPT !.cache[k] = None, !.ev.evicted = TRUE]

\* EntityManager._on_entity_saved, lines 61-86
_on_entity_saved(W, filepath) ==
  IF W.cache[filepath] = None THEN W
  ELSE notify_entity_modified(
         notify_referenced_entity_saved(Evict(W, filepath), filepath))

\* ------------------------------------------------------------------------
\* MainWindow (main_window.py)
\* ------------------------------------------------------------------------
\* entity_saved: MainWindow._on_entity_saved is connected first (line 43),
\* then the manager and the panel in the order they connected
notify_entity_saved(W, filepath) ==
  IF W.manager_first
  THEN _on_global_entity_saved(
         _on_entity_saved([W EXCEPT !.modified = FALSE], filepath), filepath)
  ELSE _on_entity_saved(
         _on_global_entity_saved([W EXCEPT !.modified = FALSE], filepath),
         filepath)

\* EntitySerializer.save(entity, filepath): the file holds the entity; a
\* cached definition of that file is from now on older than the file
Written(W, filepath) ==
  [W EXCEPT !.disk[filepath] = Stored(W.entity),
            !.cache[filepath] = IF @ = None THEN None
                                ELSE [@ EXCEPT !.fresh = FALSE]]

\* lines 282-296
_do_save(W, filepath) ==
  notify_entity_saved(
    [Written(W, filepath) EXCEPT !.filepath = filepath, !.modified = FALSE,
                                 !.ev = SaveEvent(filepath)],
    filepath)

\* EditorState.set_entity: the selection keeps the body part object it
\* holds, which is no part of the new entity
Detached(W) ==
  IF W.sel # None /\ "at" \in DOMAIN W.sel
  THEN [W EXCEPT !.sel = [bp |-> W.entity.body_parts[W.sel.at]]]
  ELSE W

set_entity(W, entity) == _on_entity_loaded([Detached(W) EXCEPT !.entity = entity])

\* lines 218-231, the unsaved-changes prompt answered with Discard
_new_entity(W) ==
  set_entity([W EXCEPT !.filepath = "", !.modified = FALSE],
             Entity("NewEntity", <<>>, <<>>))

\* lines 233-259, the unsaved-changes prompt answered with Discard
_open_entity(W, filename) ==
  set_entity([W EXCEPT !.filepath = filename, !.modified = FALSE],
             W.disk[filename])

\* ------------------------------------------------------------------------
\* State
\* ------------------------------------------------------------------------
VARIABLES disk, _project, _cache, _name_to_path, _entity, current_filepath,
          _is_modified, _primary_part, ref_combo, manager_first, last_event,
          steps, d_result, g_bp, g_target, g_trace, p_stack, p_event,
          p_done, m_last, b_entity, b_trace, _commands, _current_index,
          _max_size, _pending_snapshot, h_entity, h_heap, h_book,
          _selected_parts, _selected_hitbox

managerVars == <<disk, _project, _cache, _name_to_path, last_event>>

editorVars == <<_entity, current_filepath, _is_modified, _primary_part,
                ref_combo, manager_first, steps>>

geomVars == <<g_bp, g_target, g_trace>>

drawVars == <<p_stack, p_event, p_done>>

boundsVars == <<b_entity, b_trace>>

\* HistoryManager, the entity it works on as a list of body part objects
\* and their fields, and the books kept for the properties
historyVars == <<_commands, _current_index, _max_size, _pending_snapshot,
                 h_entity, h_heap, h_book>>

\* Selection, beside _primary_part
selectionVars == <<_selected_parts, _selected_hitbox>>

\* the variables of the specifications that exercise one component
probeVars == <<d_result, geomVars, drawVars, m_last, boundsVars, historyVars,
               selectionVars>>

vars == <<managerVars, editorVars, probeVars>>

\* the objects before a handler runs
World ==
  [disk |-> disk, project |-> _project, cache |-> _cache,
   index |-> _name_to_path, entity |-> _entity, filepath |-> current_filepath,
   modified |-> _is_modified, sel |-> _primary_part, combo |-> ref_combo,
   manager_first |-> manager_first, ev |-> NoEvent, io |-> NoCalls]

\* the objects after it
Becomes(w) ==
  /\ disk' = w.disk
  /\ _project' = w.project
  /\ _cache' = w.cache
  /\ _name_to_path' = w.index
  /\ _entity' = w.entity
  /\ current_filepath' = w.filepath
  /\ _is_modified' = w.modified
  /\ _primary_part' = w.sel
  /\ ref_combo' = w.combo
  /\ manager_first' = w.manager_first
  /\ last_event' = w.ev

\* the editor after construction, before a project is set
Constructed(files, order) ==
  [disk |-> [p \in Paths |-> IF p \in DOMAIN files THEN files[p] ELSE None],
   project |-> FALSE, cache |-> NoCache, index |-> NoIndex, entity |-> None,
   filepath |-> "", modified |-> FALSE, sel |-> None, combo |-> NoCombo,
   manager_first |-> order, ev |-> NoEvent, io |-> NoCalls]

\* the objects at the start of a behaviour
Starts(w) ==
  /\ disk = w.disk
  /\ _project = w.project
  /\ _cache = w.cache
  /\ _name_to_path = w.index
  /\ _entity = w.entity
  /\ current_filepath = w.filepath
  /\ _is_modified = w.modified
  /\ _primary_part = w.sel
  /\ ref_combo = w.combo
  /\ manager_first = w.manager_first
  /\ last_event = w.ev
  /\ steps = 0

NoFiles == [n \in FileNames |-> None]

NoEditor == Starts(Constructed(NoFiles, TRUE))

NoGeom == g_bp = None /\ g_target = None /\ g_trace = <<>>

NoDraw == p_stack = <<>> /\ p_event = None /\ p_done = FALSE

NoBounds == b_entity = None /\ b_trace = <<>>

\* HistoryManager.__init__ without an entity
NoHistory ==
  /\ _commands = <<>> /\ _current_index = -1 /\ _max_size = 50
  /\ _pending_snapshot = None /\ h_entity = None /\ h_heap = <<>>
  /\ h_book = None

\* Selection.__init__
NoSelection == _selected_parts = {} /\ _selected_hitbox = None
\* ------------------------------------------------------------------------
\* The reconciler on its own: a Reference body part and the definition the
\* cache hands out for its entity_ref, reconciled up to MaxCalls times in a
\* row with the referenced definition unchanged in between.
\* ------------------------------------------------------------------------
MaxCalls == 2

SpritePart(px, py, w, h, vis) ==
  [NewBodyPart("Sprite") EXCEPT !.position = Vec2(px, py), !.size = Vec2(w, h),
                                !.visible = vis]

GeomTargets ==
  { None,
    Entity("T", <<>>, <<>>),
    Entity("T", <<SpritePart(F(0), F(0), F(4), F(4), TRUE)>>, <<>>),
    Entity("T", <<SpritePart(F(0), F(0), F(64), F(64), TRUE)>>, <<>>),
    Entity("T", <<SpritePart(F(4), F(-5), F(80), F(40), TRUE),
                  SpritePart(F(-100), F(0), F(8), F(8), FALSE)>>, <<>>),
    Entity("T", <<SpritePart(Tenth, F(0), F(64), F(64), TRUE)>>, <<>>),
    Entity("T", <<>>, <<Hitbox(-8, -8, 32, 32, TRUE)>>) }

GeomRefParts ==
  { [NewBodyPart("Ref") EXCEPT !.part_type = "ENTITY_REF", !.entity_ref = r,
                               !.position = Vec2(px, py), !.size = Vec2(sx, sy),
                               !.pivot_offset = Vec2(ox, oy)] :
      r \in {"", "T"}, px \in {F(0), F(10), Tenth}, py \in {F(10)},
      sx \in {F(16), F(64)}, sy \in {F(40), F(64)},
      ox \in {F(0), F(-32)}, oy \in {F(0), F(-32)} }

GeomInit ==
  /\ g_bp \in GeomRefParts
  /\ g_target \in GeomTargets
  /\ g_trace = <<>>
  /\ NoEditor
  /\ d_result = None
  /\ NoDraw
  /\ m_last = None
  /\ NoBounds
  /\ NoHistory
  /\ NoSelection

\* one call of _update_ref_geometry(bp)
GeomReconcile ==
  /\ Len(g_trace) < MaxCalls
  /\ \E r \in {_update_ref_geometry(g_bp, g_target)} :
         /\ g_bp' = r.bp
         /\ g_trace' = Append(g_trace, [before |-> g_bp, after |-> r.bp,
                                        ret |-> r.ret, raised |-> r.raised])
  /\ UNCHANGED <<g_target, managerVars, editorVars, d_result, drawVars, m_last,
                 boundsVars, historyVars, selectionVars>>

GeomNext == GeomReconcile

SpecGeom == GeomInit /\ [][GeomNext]_vars

\* ------------------------------------------------------------------------
\* The dependency resolver on its own: a project whose three definitions
\* hold up to MaxEdges Reference body parts in all, each naming a
\* definition, the file name of one, or X, a name no file has;
\* get_all_dependencies is called on any name, any number of times.
\* ------------------------------------------------------------------------
MaxEdges == 4

DepRefs == FileNames \cup {Ext("A"), "X"}

RefPart(r) ==
  [NewBodyPart("Ref") EXCEPT !.part_type = "ENTITY_REF", !.entity_ref = r]

RECURSIVE RefGraphs(_)
RefGraphs(k) ==
  IF k = 0 THEN { [n \in FileNames |-> Entity(n, <<>>, <<>>)] }
  ELSE UNION { {g} \cup { [g EXCEPT ![f].body_parts = Append(@, RefPart(r))] :
                          f \in FileNames, r \in DepRefs } :
               g \in RefGraphs(k - 1) }

DepsInit ==
  /\ \E g \in RefGraphs(MaxEdges) : Starts(set_project(Constructed(g, TRUE)))
  /\ d_result = None
  /\ NoGeom
  /\ NoDraw
  /\ m_last = None
  /\ NoBounds
  /\ NoHistory
  /\ NoSelection

\* get_all_dependencies(name)
DepsQuery ==
  /\ \E n \in DepRefs :
       \E r \in {get_all_dependencies(World, n, {})} :
          /\ Becomes(r.w)
          /\ d_result' = [name |-> n, deps |-> r.deps, walks |-> r.w.io.walks]
  /\ UNCHANGED <<steps, geomVars, drawVars, m_last,
                 boundsVars, historyVars, selectionVars>>

DepsNext == DepsQuery

SpecDeps == DepsInit /\ [][DepsNext]_vars

\* ------------------------------------------------------------------------
\* The editor: a project is set, then the user creates, opens, edits and
\* saves definitions.  At most MaxParts body parts per definition and
\* MaxSteps user operations.
\* ------------------------------------------------------------------------
MaxParts == 2

MaxSteps == 5

\* a definition with one 64x64 sprite at the origin
SpriteDef == Entity("NewEntity", <<NewBodyPart("BodyPart_0")>>, <<>>)

\* a definition with one reference at (px, px) whose pivot offset is off
RefDef(r, px, off) ==
  Entity("NewEntity",
         << [RefPart(r) EXCEPT !.name = "BodyPart_0",
                                !.position = Vec2(px, px),
                                !.pivot_offset = Vec2(off, off)] >>, <<>>)

\* the project directory when the editor starts: one sprite definition; a
\* reference to it as the editor leaves it, beside a second sprite
\* definition; a reference by file name as written by hand
InitDisks ==
  { [NoFiles EXCEPT !["A"] = SpriteDef],
    [NoFiles EXCEPT !["A"] = SpriteDef, !["B"] = RefDef("A", F(10), F(-32)),
                    !["C"] = SpriteDef],
    [NoFiles EXCEPT !["A"] = SpriteDef, !["B"] = RefDef(Ext("A"), F(0), F(0))] }

\* the start-up code is not among the sources: the project is set once,
\* before the first user operation, and the slots of the manager and of the
\* panel are connected to entity_saved in either order
Init ==
  /\ \E files \in InitDisks, order \in BOOLEAN :
        Starts(set_project(Constructed(files, order)))
  /\ d_result = None
  /\ NoGeom
  /\ NoDraw
  /\ m_last = None
  /\ NoBounds
  /\ NoHistory
  /\ NoSelection

\* one user operation has been handled
Handled(w) ==
  /\ steps < MaxSteps
  /\ Becomes(w)
  /\ steps' = steps + 1
  /\ UNCHANGED <<d_result, geomVars, drawVars, m_last,
                 boundsVars, historyVars, selectionVars>>

NewEntity == \E w \in {_new_entity(World)} : Handled(w)

OpenEntity ==
  \E f \in FileNames :
     /\ disk[f] # None
     /\ \E w \in {_open_entity(World, f)} : Handled(w)

AddBodyPart ==
  /\ _entity # None
  /\ Len(_entity.body_parts) < MaxParts
  /\ \E w \in {_on_add_bodypart(World)} : Handled(w)

SelectBodyPart ==
  /\ _entity # None
  /\ \E i \in 1 .. Len(_entity.body_parts) :
        /\ _primary_part # [at |-> i]
        /\ \E w \in {_on_list_selection_changed(World, i)} : Handled(w)

TypeChanged ==
  /\ _primary_part # None
  /\ \E t \in {"SIMPLE", "ENTITY_REF"} :
        /\ selected_body_part(World).part_type # t
        /\ \E w \in {_on_type_changed(World, t)} : Handled(w)

\* the user picks an item of the combo box of a Reference part
EntityRefChanged ==
  /\ _primary_part # None
  /\ IsRef(selected_body_part(World))
  /\ \E ref_name \in ref_combo.items \cup {""} :
        /\ selected_body_part(World).entity_ref # ref_name
        /\ \E w \in {_on_entity_ref_changed(World, ref_name)} : Handled(w)

\* _save_entity with a current file
SaveEntity ==
  /\ _entity # None
  /\ current_filepath # ""
  /\ \E w \in {_do_save(World, current_filepath)} : Handled(w)

\* _save_entity_as, and _save_entity without a current file
SaveEntityAs ==
  /\ _entity # None
  /\ \E f \in FileNames : \E w \in {_do_save(World, f)} : Handled(w)

Next ==
  \/ NewEntity
  \/ OpenEntity
  \/ AddBodyPart
  \/ SelectBodyPart
  \/ TypeChanged
  \/ EntityRefChanged
  \/ SaveEntity
  \/ SaveEntityAs

Spec == Init /\ [][Next]_vars

\* ------------------------------------------------------------------------
\* ViewportRenderer (viewport_renderer.py): the traversal of nested
\* references, one step per action.  p_stack holds the calls of
\* _draw_body_parts that have not returned, the innermost last:
\*   entity  the definition the call draws
\*   depth   its depth argument
\*   i       0 when the call has just been entered, else the index of the
\*           body part the loop of line 84 handles next
\*   origin  the origin of the painter's coordinates during the call, in the
\*           coordinates of the call below it on the stack
\* The painter's transform is the composition of the origins on the stack
\* (save of line 114, restore of line 146).  p_event is what the last step
\* did, p_done whether render has returned.  No body part is selected and
\* every z_order is 0, so the draw list is the list of body parts.
\* ------------------------------------------------------------------------
MaxDepth == 10

Frame(entity, depth, origin) ==
  [entity |-> entity, depth |-> depth, i |-> 0, origin |-> origin]

DrawEvent(kind, depth, bp, origin) ==
  [kind |-> kind, depth |-> depth, bp |-> bp, origin |-> origin]

\* painter.scale(-1, 1) and the like (lines 124-127) on one coordinate
Flipped(flip, v) == IF flip THEN FNeg(v) ELSE v

\* painter.scale(pixel_scale, pixel_scale) (lines 122-123) on one
\* coordinate; the scales of the model are 1 and 2
PixelScaled(pixel_scale, v) ==
  IF pixel_scale = 1 THEN v ELSE MkF(v.neg, {i + 1 : i \in v.bits})

\* lines 116-131 on one axis: translate to the center, scale, flip, then
\* translate by the pivot offset in the scaled and flipped coordinates
ChildOrigin1(pos, size, off, flip, pixel_scale) ==
  FAdd(FAdd(pos, FHalf(size)), PixelScaled(pixel_scale, Flipped(flip, off)))

\* where the painter's origin is when line 144 draws the referenced
\* definition, in the coordinates of the definition that holds bp
ChildOrigin(bp) ==
  Vec2(ChildOrigin1(bp.position.x, bp.size.x, bp.pivot_offset.x,
                    bp.flip_x, bp.pixel_scale),
       ChildOrigin1(bp.position.y, bp.size.y, bp.pivot_offset.y,
                    bp.flip_y, bp.pixel_scale))

Top(stack) == stack[Len(stack)]

Below(stack) == SubSeq(stack, 1, Len(stack) - 1)

\* the loop of line 84 moves on to the next body part
Advanced(stack) ==
  [stack EXCEPT ![Len(stack)].i = @ + 1]

Drawn(w, stack, event) == [w |-> w, stack |-> stack, event |-> event]

\* line 144 for the definition get_entity_def returned, or the placeholder
\* of lines 107-110
DrawResolved(r, stack, bp) ==
  IF r.ent = None
  THEN Drawn(r.w, Advanced(stack),
             DrawEvent("placeholder", Top(stack).depth, bp, None))
  ELSE Drawn(r.w,
             Append(Advanced(stack),
                    Frame(r.ent, Top(stack).depth + 1, ChildOrigin(bp))),
             DrawEvent("reference", Top(stack).depth + 1, bp, ChildOrigin(bp)))

\* _draw_entity_ref(painter, bp, depth + 1), lines 100-146
_draw_entity_ref(W, stack, bp) ==
  IF bp.entity_ref = ""
  THEN Drawn(W, Advanced(stack),
             DrawEvent("placeholder", Top(stack).depth, bp, None))
  ELSE DrawResolved(get_entity_def(W, bp.entity_ref), stack, bp)

\* one round of the loop of lines 84-98 for body part bp
DrawBodyPart(W, stack, bp) ==
  IF ~bp.visible
  THEN Drawn(W, Advanced(stack), DrawEvent("hidden", Top(stack).depth, bp, None))
  ELSE IF IsRef(bp) THEN _draw_entity_ref(W, stack, bp)
  ELSE Drawn(W, Advanced(stack), DrawEvent("texture", Top(stack).depth, bp, None))

\* ------------------------------------------------------------------------
\* Drawing on its own: a project of three definitions, each one sprite and
\* up to MaxRefParts Reference body parts in all, plain, flipped or scaled;
\* definition A is opened and rendered once.
\* ------------------------------------------------------------------------
MaxRefParts == 2

\* how a Reference body part is flipped and scaled
DrawVariants ==
  { [flip_x |-> FALSE, flip_y |-> FALSE, pixel_scale |-> 1],
    [flip_x |-> TRUE,  flip_y |-> FALSE, pixel_scale |-> 1],
    [flip_x |-> FALSE, flip_y |-> TRUE,  pixel_scale |-> 2] }

DrawRefPart(r, v) ==
  [RefPart(r) EXCEPT !.flip_x = v.flip_x, !.flip_y = v.flip_y,
                     !.pixel_scale = v.pixel_scale]

RECURSIVE DrawGraphs(_)
DrawGraphs(k) ==
  IF k = 0
  THEN { [n \in FileNames |-> Entity(n, <<NewBodyPart("Sprite")>>, <<>>)] }
  ELSE UNION { {g} \cup { [g EXCEPT ![f].body_parts =
                                       Append(@, DrawRefPart(r, v))] :
                          f \in FileNames, r \in FileNames, v \in DrawVariants } :
               g \in DrawGraphs(k - 1) }

\* the project is set and definition A opened
DrawInit ==
  /\ \E g \in DrawGraphs(MaxRefParts) :
        Starts(_open_entity(set_project(Constructed(g, TRUE)), "A"))
  /\ d_result = None
  /\ NoGeom
  /\ NoDraw
  /\ m_last = None
  /\ NoBounds
  /\ NoHistory
  /\ NoSelection

\* render (lines 26-50) calls _draw_body_parts(painter, entity)
Paint ==
  /\ ~p_done /\ p_stack = <<>> /\ p_event = None
  /\ _entity # None
  /\ p_stack' = <<Frame(_entity, 0, Vec2(F(0), F(0)))>>
  /\ p_event' = DrawEvent("render", 0, None, None)
  /\ UNCHANGED <<managerVars, editorVars, d_result, geomVars, p_done, m_last,
                 boundsVars, historyVars, selectionVars>>

\* line 54: if depth > 10
TooDeep_one_more(depth) == depth > MaxDepth + 1
TooDeep(depth) == depth > MaxDepth

\* lines 53-55: the depth guard on entry
DrawEnter ==
  /\ p_stack # <<>> /\ Top(p_stack).i = 0
  /\ IF TooDeep(Top(p_stack).depth)
     THEN /\ p_stack' = Below(p_stack)
          /\ p_event' = DrawEvent("cut", Top(p_stack).depth, None, None)
     ELSE /\ p_stack' = Advanced(p_stack)
          /\ p_event' = DrawEvent("enter", Top(p_stack).depth, None, None)
  /\ UNCHANGED <<managerVars, editorVars, d_result, geomVars, p_done, m_last,
                 boundsVars, historyVars, selectionVars>>

\* lines 84-98 for the next body part
DrawPart ==
  /\ p_stack # <<>>
  /\ Top(p_stack).i \in 1 .. Len(Top(p_stack).entity.body_parts)
  /\ \E r \in { DrawBodyPart(World, p_stack,
                  Top(p_stack).entity.body_parts[Top(p_stack).i]) } :
        /\ Becomes(r.w)
        /\ p_stack' = r.stack
        /\ p_event' = r.event
  /\ UNCHANGED <<steps, d_result, geomVars, p_done, m_last,
                 boundsVars, historyVars, selectionVars>>

\* the loop is over: _draw_body_parts returns, and render with the
\* outermost call
DrawReturn ==
  /\ p_stack # <<>>
  /\ Top(p_stack).i > Len(Top(p_stack).entity.body_parts)
  /\ p_stack' = Below(p_stack)
  /\ p_event' = DrawEvent("return", Top(p_stack).depth, None, None)
  /\ p_done' = (Len(p_stack) = 1)
  /\ UNCHANGED <<managerVars, editorVars, d_result, geomVars, m_last,
                 boundsVars, historyVars, selectionVars>>

DrawNext == Paint \/ DrawEnter \/ DrawPart \/ DrawReturn

SpecDraw == DrawInit /\ [][DrawNext]_vars

\* render runs to completion: every step of the traversal is taken
SpecDrawFair == SpecDraw /\ WF_vars(DrawNext)

\* ------------------------------------------------------------------------
\* calculate_entity_bounds on its own: a definition of up to MaxBoundsParts
\* body parts and MaxBoundsHitboxes entity-level hitboxes is measured up to
\* MaxBoundsCalls times; one of its body parts may be a reference to B,
\* whose file is rewritten in between without any reconciliation.
\* ------------------------------------------------------------------------
MaxBoundsParts == 2
MaxBoundsHitboxes == 2
MaxBoundsCalls == 2

\* a reference to B whose size is not that of B's bounds
StaleRefPart ==
  [RefPart("B") EXCEPT !.position = Vec2(F(10), F(10)),
                       !.size = Vec2(F(32), F(24))]

BoundsParts ==
  { SpritePart(F(0), F(0), F(4), F(4), TRUE),
    SpritePart(F(4), F(-5), F(80), F(40), TRUE),
    SpritePart(F(-100), F(0), F(8), F(8), FALSE),
    StaleRefPart }

BoundsHitboxes ==
  { Hitbox(-8, -8, 32, 32, TRUE), Hitbox(-200, -200, 10, 10, FALSE) }

RECURSIVE SeqsUpTo(_, _)
SeqsUpTo(S, k) ==
  IF k = 0 THEN { <<>> }
  ELSE SeqsUpTo(S, k - 1)
         \cup { Append(s, x) : s \in SeqsUpTo(S, k - 1), x \in S }

BoundsEntities ==
  { [Entity("E", parts, hbs) EXCEPT !.pivot = Vec2(F(p), F(p))] :
      parts \in SeqsUpTo(BoundsParts, MaxBoundsParts),
      hbs \in SeqsUpTo(BoundsHitboxes, MaxBoundsHitboxes),
      p \in {0, 5} }

\* what B holds after it has been saved again
WideDef == Entity("NewEntity", <<SpritePart(F(0), F(0), F(200), F(100), TRUE)>>, <<>>)

BoundsInit ==
  /\ Starts(set_project(Constructed([NoFiles EXCEPT !["B"] = SpriteDef], TRUE)))
  /\ b_entity \in BoundsEntities
  /\ b_trace = <<>>
  /\ d_result = None
  /\ NoGeom
  /\ NoDraw
  /\ m_last = None
  /\ NoHistory
  /\ NoSelection

\* calculate_entity_bounds(entity): the function has no access to the
\* manager and assigns to no field of the definition
BoundsCall ==
  /\ Len(b_trace) < MaxBoundsCalls
  /\ b_trace' = Append(b_trace,
                       [ret |-> calculate_entity_bounds(b_entity),
                        entity |-> b_entity, target |-> disk["B"]])
  /\ UNCHANGED <<managerVars, editorVars, d_result, geomVars, drawVars,
                 m_last, b_entity, historyVars, selectionVars>>

\* B is saved with other content; the definition measured is not reconciled
TargetSaved ==
  /\ disk["B"] = SpriteDef
  /\ disk' = [disk EXCEPT !["B"] = Stored(WideDef)]
  /\ UNCHANGED <<_project, _cache, _name_to_path, last_event, editorVars,
                 probeVars>>

BoundsNext == BoundsCall \/ TargetSaved

SpecBounds == BoundsInit /\ [][BoundsNext]_vars

\* ------------------------------------------------------------------------
\* The EntityManager on its own.  The editor holds a new, empty definition;
\* files appear in and disappear from the two directories behind the
\* manager's back, the definition is saved to a path, the project is set,
\* and get_entity_def is called with a name, a file name, the empty string
\* or a name no file has.  At most MaxManagerSteps operations.
\* ------------------------------------------------------------------------
MaxManagerSteps == 5

ManagerNames == {"", "A", Ext("A"), "B", "X"}

ManagerPaths == {"A", InParts("A"), "B"}

\* what a file written by another program may hold
ManagerContents == {SpriteDef, Unreadable, Blank}

\* the name whose keys lead to the path
NameOf(p) == CHOOSE n \in FileNames : p = n \/ p = InParts(n)

\* Bookkeeping for the properties, no state of the program:
\*   call     the last call of get_entity_def: its argument, the path the
\*            index had for it before, the path after, whether a project was
\*            set, the loader calls and scans it made, what it returned, the
\*            files and the cache when it returned and what was held,
\*            failed and created when it began
\*   held     per path, the definition the loader returned for it and the
\*            name it was asked by, since the path was last invalidated
\*   failed   the paths whose last load raised or returned nothing
\*   created  the files created since the directories were last scanned
\*   op       the operation made last
\*   prior    the cache and the index as the last set_project found them
NoHeld == [p \in Paths |-> None]

NoBook == [call |-> None, held |-> NoHeld, failed |-> {}, created |-> {},
           op |-> "", prior |-> None]

ManagerInit ==
  /\ \E p \in {"A", "B"} :
        Starts(_new_entity(Constructed([NoFiles EXCEPT ![p] = SpriteDef], TRUE)))
  /\ m_last = NoBook
  /\ d_result = None
  /\ NoGeom
  /\ NoDraw
  /\ NoBounds
  /\ NoHistory
  /\ NoSelection

ManagerHandled(w, book) ==
  /\ steps < MaxManagerSteps
  /\ Becomes(w)
  /\ steps' = steps + 1
  /\ m_last' = book
  /\ UNCHANGED <<d_result, geomVars, drawVars, boundsVars, historyVars, selectionVars>>

\* the books after get_entity_def(ref_name) has returned r
Called(ref_name, r) ==
  [call |-> [name |-> ref_name, project |-> _project,
             before |-> Resolve(_name_to_path, ref_name),
             path |-> Resolve(r.w.index, ref_name),
             loads |-> r.w.io.loads, scans |-> r.w.io.scans, ret |-> r.ent,
             disk |-> r.w.disk, cache |-> r.w.cache, index |-> r.w.index,
             held |-> m_last.held, failed |-> m_last.failed,
             created |-> m_last.created],
   held |-> [p \in Paths |->
               IF <<p>> = r.w.io.loads /\ r.ent # None
               THEN [ent |-> r.ent, name |-> ref_name]
               ELSE m_last.held[p]],
   failed |-> IF r.w.io.loads = <<>> THEN m_last.failed
              ELSE IF r.ent = None
              THEN m_last.failed \cup {r.w.io.loads[1]}
              ELSE m_last.failed \ {r.w.io.loads[1]},
   created |-> IF r.w.io.scans > 0 THEN {} ELSE m_last.created,
   op |-> "get_entity_def", prior |-> m_last.prior]

GetEntityDef ==
  \E ref_name \in ManagerNames :
     \E r \in {get_entity_def(World, ref_name)} :
        ManagerHandled(r.w, Called(ref_name, r))

\* another program writes a file that was not there
FileCreated ==
  \E p \in ManagerPaths, content \in ManagerContents :
     /\ disk[p] = None
     /\ ManagerHandled([World EXCEPT !.disk[p] = content],
                       [m_last EXCEPT !.created = @ \cup {p},
                                      !.op = "created"])

\* a file is deleted or moved away
FileRemoved ==
  \E p \in ManagerPaths :
     /\ disk[p] # None
     /\ ManagerHandled([World EXCEPT !.disk[p] = None],
                       [m_last EXCEPT !.created = @ \ {p},
                                      !.op = "removed"])

\* the editor saves its definition to a path: entity_saved invalidates it
EntitySaved ==
  \E p \in ManagerPaths :
     \E w \in {_do_save(World, p)} :
        ManagerHandled(w, [m_last EXCEPT !.held[p] = None, !.op = "saved",
                                         !.created = IF disk[p] = None
                                                     THEN @ \cup {p} ELSE @])

\* set_project(project): the cache and the index are cleared, the
\* directories scanned
ProjectSet ==
  \E w \in {set_project(World)} :
     ManagerHandled(w, [m_last EXCEPT !.held = NoHeld, !.created = {},
                                      !.op = "set_project",
                                      !.prior = [cache |-> _cache,
                                                 index |-> _name_to_path]])

ManagerNext ==
  GetEntityDef \/ FileCreated \/ FileRemoved \/ EntitySaved \/ ProjectSet

SpecManager == ManagerInit /\ [][ManagerNext]_vars

\* ------------------------------------------------------------------------
\* HistoryManager (core/history_manager.py) with the commands of
\* core/command.py and EntitySnapshotCommand (core/snapshot_command.py).
\*
\* Body parts are objects: h_heap[o] holds the fields of object o, and the
\* body_parts of the entity is a list of objects.  A command on a body part
\* holds the object; a snapshot holds deep copies, that is values, and
\* applying one puts fresh objects into the list.  Of a body part the
\* position is kept (0 or 1), of the entity name and body_parts; entity_id,
\* pivot, version, tags and metadata are copied as name is, and
\* entity_hitboxes as body_parts are.
\*
\* A history is the record
\*   commands  _commands          index    _current_index
\*   max_size  _max_size          pending  _pending_snapshot
\*   entity    _entity            heap     the objects
\* and a command carries the serial number id that tells command objects
\* apart.  An index of -1 in a remove command stands for None.
\* ------------------------------------------------------------------------
MaxHistorySteps == 6

MaxHistorySize == 2

MaxHistoryParts == 2

HistoryEntityNames == {"E", "F"}

HistoryNow ==
  [commands |-> _commands, index |-> _current_index, max_size |-> _max_size,
   pending |-> _pending_snapshot, entity |-> h_entity, heap |-> h_heap]

\* list.insert(i, x) for i >= 0: an index past the end appends
Inserted_at_end(s, i, x) == Append(s, x)
Inserted(s, i, x) ==
  IF i >= Len(s) THEN Append(s, x)
  ELSE SubSeq(s, 1, i) \o <<x>> \o SubSeq(s, i + 1, Len(s))

\* list.index(x), 0-based; -1 where Python raises ValueError
IndexOf(s, x) ==
  IF \E i \in DOMAIN s : s[i] = x
  THEN (CHOOSE i \in DOMAIN s : s[i] = x /\ \A j \in 1 .. i - 1 : s[j] # x) - 1
  ELSE -1

\* Entity.remove_body_part: the first element equal to body_part, if any
remove_body_part(s, body_part) ==
  IF IndexOf(s, body_part) = -1 THEN s
  ELSE SubSeq(s, 1, IndexOf(s, body_part))
         \o SubSeq(s, IndexOf(s, body_part) + 2, Len(s))

\* copy.deepcopy(entity): the values, no object shared with the entity
deepcopy(entity, heap) ==
  [name |-> entity.name,
   body_parts |-> [i \in DOMAIN entity.body_parts |-> heap[entity.body_parts[i]]]]

\* EntitySnapshotCommand._apply_state
_apply_state_appending(H, snapshot) ==
  [H EXCEPT !.entity = [name |-> snapshot.name,
                        body_parts |->
                          H.entity.body_parts
                            \o [i \in DOMAIN snapshot.body_parts |-> Len(H.heap) + i]],
            !.heap = H.heap \o snapshot.body_parts]
_apply_state(H, snapshot) ==
  [H EXCEPT !.entity = [name |-> snapshot.name,
                        body_parts |->
                          [i \in DOMAIN snapshot.body_parts |-> Len(H.heap) + i]],
            !.heap = H.heap \o snapshot.body_parts]

\* EntitySnapshotCommand.__init__ and finalize
EntitySnapshotCommand(H, id) ==
  [id |-> id, kind |-> "snapshot", before_state |-> deepcopy(H.entity, H.heap),
   after_state |-> None]

finalize(command, H) ==
  [command EXCEPT !.after_state = deepcopy(H.entity, H.heap)]

\* command.execute(entity, signal_hub): the history, the command object
\* and whether it raised
CommandExecute(command, H) ==
  CASE command.kind = "add" ->
         [h |-> [H EXCEPT !.entity.body_parts =
                   IF command.insert_index >= 0
                   THEN Inserted(@, command.insert_index, command.bodypart)
                   ELSE Append(@, command.bodypart)],
          cmd |-> command, raised |-> FALSE]
    [] command.kind = "remove" ->
         IF IndexOf(H.entity.body_parts, command.bodypart) = -1
         THEN [h |-> H, cmd |-> command, raised |-> TRUE]
         ELSE [h |-> [H EXCEPT !.entity.body_parts =
                        remove_body_part(@, command.bodypart)],
               cmd |-> [command EXCEPT
                          !.index = IndexOf(H.entity.body_parts, command.bodypart)],
               raised |-> FALSE]
    [] command.kind = "move" ->
         [h |-> [H EXCEPT !.heap[command.bodypart].position = command.new_pos],
          cmd |-> command, raised |-> FALSE]
    [] command.kind = "snapshot" ->
         [h |-> IF command.after_state # None
                THEN _apply_state(H, command.after_state) ELSE H,
          cmd |-> command, raised |-> FALSE]

\* command.undo(entity, signal_hub)
CommandUndo(command, H) ==
  CASE command.kind = "add" ->
         [H EXCEPT !.entity.body_parts = remove_body_part(@, command.bodypart)]
    [] command.kind = "remove" ->
         [H EXCEPT !.entity.body_parts =
            IF command.index # -1 THEN Inserted(@, command.index, command.bodypart)
            ELSE Append(@, command.bodypart)]
    [] command.kind = "move" ->
         [H EXCEPT !.heap[command.bodypart].position = command.old_pos]
    [] command.kind = "snapshot" -> _apply_state(H, command.before_state)

\* lines 111-117
can_undo(H) == H.index >= 0

can_redo(H) == H.index < Len(H.commands) - 1

\* lines 138-140
get_history_size(H) == Len(H.commands)

\* lines 48 and 177: self._commands[:self._current_index + 1]
Retained_all(H) == H.commands
Retained(H) == SubSeq(H.commands, 1, H.index + 1)

\* lines 54-60 and 180-186: append, then drop the oldest or advance
Appended_unbounded(H, command) ==
  [H EXCEPT !.commands = Append(@, command), !.index = @ + 1]
Appended(H, command) ==
  IF Len(H.commands) + 1 > H.max_size
  THEN [H EXCEPT !.commands = Tail(Append(@, command))]
  ELSE [H EXCEPT !.commands = Append(@, command), !.index = @ + 1]

\* HistoryManager.execute: the history and whether the command raised
execute(H, command) ==
  IF H.entity = None THEN [h |-> H, raised |-> FALSE]
  ELSE \* the redo history is discarded before the command runs
       IF CommandExecute(command, [H EXCEPT !.commands = Retained(H)]).raised
       THEN [h |-> [H EXCEPT !.commands = Retained(H)], raised |-> TRUE]
       ELSE [h |-> Appended(CommandExecute(command,
                                         [H EXCEPT !.commands = Retained(H)]).h,
                          CommandExecute(command,
                                         [H EXCEPT !.commands = Retained(H)]).cmd),
             raised |-> FALSE]

\* HistoryManager.undo
undo(H) ==
  IF ~can_undo(H) THEN [h |-> H, ret |-> FALSE]
  ELSE [h |-> [CommandUndo(H.commands[H.index + 1], H) EXCEPT !.index = @ - 1],
        ret |-> TRUE]

\* HistoryManager.redo: the index moves before the command runs, so it
\* stays moved when the command raises
Reapplied(H, r) ==
  IF r.raised THEN [h |-> H, ret |-> FALSE, raised |-> TRUE]
  ELSE [h |-> [r.h EXCEPT !.commands[H.index + 1] = r.cmd],
        ret |-> TRUE, raised |-> FALSE]

redo(H) ==
  IF ~can_redo(H) THEN [h |-> H, ret |-> FALSE, raised |-> FALSE]
  ELSE Reapplied([H EXCEPT !.index = @ + 1],
                 CommandExecute(H.commands[H.index + 2],
                                [H EXCEPT !.index = @ + 1]))

\* HistoryManager.set_max_size
set_max_size(H, max_size) ==
  IF max_size <= 0 THEN [h |-> H, raised |-> TRUE]
  ELSE IF Len(H.commands) > max_size
  THEN [h |-> [H EXCEPT
                 !.max_size = max_size,
                 !.commands = SubSeq(@, Len(@) - max_size + 1, Len(@)),
                 !.index = IF @ - (Len(H.commands) - max_size) < -1 THEN -1
                           ELSE @ - (Len(H.commands) - max_size)],
        raised |-> FALSE]
  ELSE [h |-> [H EXCEPT !.max_size = max_size], raised |-> FALSE]

\* HistoryManager.begin_change; id is the identity of the snapshot made
begin_change(H, id) ==
  IF H.entity # None /\ H.pending = None
  THEN [H EXCEPT !.pending = EntitySnapshotCommand(H, id)]
  ELSE H

\* HistoryManager.end_change
end_change(H) ==
  IF H.pending # None /\ H.entity # None
  THEN [Appended([H EXCEPT !.commands = Retained(H)], finalize(H.pending, H))
          EXCEPT !.pending = None]
  ELSE H

\* HistoryManager.cancel_change
cancel_change(H) == [H EXCEPT !.pending = None]

\* ------------------------------------------------------------------------
\* A HistoryManager made for an entity with max_size of 1 to
\* MaxHistorySize, then up to MaxHistorySteps calls: execute with an add of
\* a new body part, a remove or a move of one in the entity, undo, redo,
\* begin_change, end_change, cancel_change, set_max_size, and the direct
\* changes the tools make to the entity.  The books:
\*   op, ret, raised  the call made last, what it returned, whether it raised
\*   serial           the commands made so far
\*   applied          the ids of the retained commands whose effect is on
\*                    the entity: executed or redone, and not undone since
\*   missing          the ids of the retained commands that were executed
\*                    after a command that was dropped while undone
\*   had, index_before  the ids in _commands and _current_index before the call
\*   new              the id of the command the call stored, 0 if none
\*   exec, phase      the body parts before and after the last execute, and
\*                    whether undo, then redo, followed it directly
\*   marks            per snapshot id the entity when it was made and
\*                    when it was finalized
\* ------------------------------------------------------------------------
Ids(commands) == [i \in DOMAIN commands |-> commands[i].id]

IdSet(commands) == { commands[i].id : i \in DOMAIN commands }

BodyPartsOf(H) == deepcopy(H.entity, H.heap).body_parts

NewBodyPartObject == [position |-> 0]

HistoryEntities ==
  { [entity |-> [name |-> "E", body_parts |-> <<>>], heap |-> <<>>],
    [entity |-> [name |-> "E", body_parts |-> <<1>>],
     heap |-> <<NewBodyPartObject>>] }

NoHistoryBook ==
  [op |-> "", ret |-> FALSE, raised |-> FALSE, serial |-> 0, applied |-> {},
   missing |-> {}, had |-> <<>>, index_before |-> -1, new |-> 0,
   exec |-> [before |-> <<>>, after |-> <<>>], phase |-> "", marks |-> <<>>]

\* HistoryManager(entity, signal_hub, max_size)
HistoryInit ==
  /\ NoEditor
  /\ \E e \in HistoryEntities : h_entity = e.entity /\ h_heap = e.heap
  /\ _commands = <<>>
  /\ _current_index = -1
  /\ _max_size \in 1 .. MaxHistorySize
  /\ _pending_snapshot = None
  /\ h_book = NoHistoryBook
  /\ d_result = None
  /\ NoGeom
  /\ NoDraw
  /\ m_last = None
  /\ NoBounds
  /\ NoSelection

HistoryBecomes(H, book) ==
  /\ _commands' = H.commands
  /\ _current_index' = H.index
  /\ _max_size' = H.max_size
  /\ _pending_snapshot' = H.pending
  /\ h_entity' = H.entity
  /\ h_heap' = H.heap
  /\ h_book' = book

HistoryOnly ==
  /\ steps < MaxHistorySteps
  /\ steps' = steps + 1
  /\ UNCHANGED <<managerVars, _entity, current_filepath, _is_modified,
                 _primary_part, ref_combo, manager_first, d_result, geomVars,
                 drawVars, m_last, boundsVars, selectionVars>>

\* the books after a call that left the history H
HistoryBooked(op, H) ==
  [h_book EXCEPT !.op = op, !.ret = FALSE, !.raised = FALSE,
                 !.had = Ids(_commands), !.index_before = _current_index,
                 !.new = 0, !.phase = "",
                 !.applied = @ \cap IdSet(H.commands),
                 !.missing = @ \cap IdSet(H.commands)]

\* the commands the panels make: an add of a new body part at the end or
\* in front, a remove or a move of a body part of the entity
HistoryCommands(H, id) ==
  { [id |-> id, kind |-> "add", bodypart |-> Len(H.heap), insert_index |-> i] :
      i \in IF Len(H.entity.body_parts) < MaxHistoryParts THEN {-1, 0} ELSE {} }
  \cup { [id |-> id, kind |-> "remove", bodypart |-> H.entity.body_parts[i],
          index |-> -1] : i \in DOMAIN H.entity.body_parts }
  \cup { [id |-> id, kind |-> "move", bodypart |-> H.entity.body_parts[i],
          old_pos |-> H.heap[H.entity.body_parts[i]].position,
          new_pos |-> 1 - H.heap[H.entity.body_parts[i]].position] :
          i \in DOMAIN H.entity.body_parts }

\* history.execute(command); the body part of an add is made by the caller
Execute ==
  /\ HistoryOnly
  /\ \E H \in {[HistoryNow EXCEPT !.heap = Append(@, NewBodyPartObject)]} :
       \E command \in HistoryCommands(H, h_book.serial + 1) :
         \E r \in {execute(IF command.kind = "add" THEN H ELSE HistoryNow,
                           command)} :
            HistoryBecomes(r.h,
              [HistoryBooked("execute", r.h) EXCEPT
                 !.raised = r.raised,
                 !.serial = command.id,
                 !.marks = Append(@, None),
                 !.new = IF r.raised THEN 0 ELSE command.id,
                 !.applied = IF r.raised THEN @ ELSE @ \cup {command.id},
                 !.phase = IF r.raised THEN "" ELSE "executed",
                 !.exec = [before |-> BodyPartsOf(HistoryNow),
                           after |-> BodyPartsOf(r.h)]])

\* history.undo()
Undo ==
  /\ HistoryOnly
  /\ \E r \in {undo(HistoryNow)} :
       HistoryBecomes(r.h,
         [HistoryBooked("undo", r.h) EXCEPT
            !.ret = r.ret,
            !.applied = IF r.ret THEN @ \ {_commands[_current_index + 1].id} ELSE @,
            !.phase = IF h_book.phase = "executed" THEN "undone" ELSE ""])

\* history.redo()
Redo ==
  /\ HistoryOnly
  /\ \E r \in {redo(HistoryNow)} :
       HistoryBecomes(r.h,
         [HistoryBooked("redo", r.h) EXCEPT
            !.ret = r.ret,
            !.raised = r.raised,
            !.applied = IF r.ret THEN @ \cup {_commands[_current_index + 2].id}
                        ELSE @,
            !.phase = IF h_book.phase = "undone" THEN "redone" ELSE ""])

\* history.begin_change(description)
BeginChange ==
  /\ HistoryOnly
  /\ \E H \in {begin_change(HistoryNow, h_book.serial + 1)} :
       HistoryBecomes(H,
         IF H.pending = _pending_snapshot THEN HistoryBooked("begin_change", H)
         ELSE [HistoryBooked("begin_change", H) EXCEPT
                 !.serial = @ + 1,
                 !.marks = Append(@, [created |-> deepcopy(h_entity, h_heap),
                                      finalized |-> None])])

\* history.end_change()
EndChange ==
  /\ HistoryOnly
  /\ \E H \in {end_change(HistoryNow)} :
       HistoryBecomes(H,
         IF _pending_snapshot = None THEN HistoryBooked("end_change", H)
         ELSE [HistoryBooked("end_change", H) EXCEPT
                 !.new = _pending_snapshot.id,
                 !.applied = @ \cup {_pending_snapshot.id},
                 !.marks[_pending_snapshot.id].finalized =
                    deepcopy(h_entity, h_heap)])

\* history.cancel_change()
CancelChange ==
  /\ HistoryOnly
  /\ _pending_snapshot # None
  /\ \E H \in {cancel_change(HistoryNow)} :
       HistoryBecomes(H, HistoryBooked("cancel_change", H))

\* history.set_max_size(max_size): the oldest commands go, so when one of
\* them was undone every command kept was executed after it and misses it
\* from now on
SetMaxSize ==
  /\ HistoryOnly
  /\ \E max_size \in 0 .. MaxHistorySize :
       \E r \in {set_max_size(HistoryNow, max_size)} :
          HistoryBecomes(r.h,
            [HistoryBooked("set_max_size", r.h) EXCEPT
               !.raised = r.raised,
               !.missing =
                  IF IdSet(_commands) \ IdSet(r.h.commands) \subseteq h_book.applied
                  THEN @ ELSE @ \cup IdSet(r.h.commands)])

\* a tool or a panel changes the entity directly: the position of a body
\* part or the name of the entity
Modify ==
  /\ HistoryOnly
  /\ \E H \in { [HistoryNow EXCEPT !.heap[h_entity.body_parts[i]].position = 1 - @] :
                  i \in DOMAIN h_entity.body_parts }
             \cup { [HistoryNow EXCEPT !.entity.name = n] :
                      n \in HistoryEntityNames \ {h_entity.name} } :
       HistoryBecomes(H, HistoryBooked("modify", H))

HistoryNext ==
  \/ Execute \/ Undo \/ Redo \/ BeginChange \/ EndChange \/ CancelChange
  \/ SetMaxSize \/ Modify

SpecHistory == HistoryInit /\ [][HistoryNext]_vars
\* ------------------------------------------------------------------------
\* Selection (core/state/selection.py) on its own.  Body parts and hitboxes
\* are objects, told apart by identity: MaxSelParts body parts and
\* MaxSelHitboxes hitboxes.  The state of a Selection is the record
\*   parts    _selected_parts
\*   primary  _primary_part
\*   hitbox   _selected_hitbox
\* What the subscribers of selection_changed do is left out.  An operation
\* is the set of the states it may end in: next(iter(set)) yields whichever
\* element the set's iteration starts with.
\* ------------------------------------------------------------------------
MaxSelParts == 4

MaxSelHitboxes == 3

MaxSelList == 2

SelParts == { [part |-> i] : i \in 1 .. MaxSelParts }

SelHitboxes == { [hitbox |-> i] : i \in 1 .. MaxSelHitboxes }

Selected == [parts |-> _selected_parts, primary |-> _primary_part,
             hitbox |-> _selected_hitbox]

\* lines 147-153
clear_selection(S) == { [parts |-> {}, primary |-> None, hitbox |-> None] }

\* line 103: next(iter(self._selected_parts)) if self._selected_parts else None
NewPrimary_kept(remaining, old) == {old}
NewPrimary(remaining, old) == IF remaining = {} THEN {None} ELSE remaining

\* lines 99-103
Deselected(S, bodypart) ==
  IF S.primary = bodypart
  THEN { [S EXCEPT !.parts = @ \ {bodypart}, !.primary = p] :
           p \in NewPrimary(S.parts \ {bodypart}, S.primary) }
  ELSE { [S EXCEPT !.parts = @ \ {bodypart}] }

\* lines 89-112
select_bodypart(S, bodypart, additive) ==
  IF bodypart = None
  THEN IF ~additive THEN clear_selection(S) ELSE {S}
  ELSE IF additive
  THEN IF bodypart \in S.parts THEN Deselected(S, bodypart)
       ELSE { [S EXCEPT !.parts = @ \cup {bodypart}, !.primary = bodypart] }
  ELSE { [parts |-> {bodypart}, primary |-> bodypart, hitbox |-> None] }

\* lines 114-116
set_selection(S, bodypart) == select_bodypart(S, bodypart, FALSE)

\* lines 118-124: a body part object is never falsy
add_to_selection(S, bodypart) ==
  IF bodypart \in S.parts THEN {S}
  ELSE { [S EXCEPT !.parts = @ \cup {bodypart},
                   !.primary = IF @ = None THEN bodypart ELSE @] }

\* lines 126-128
toggle_selection(S, bodypart) == select_bodypart(S, bodypart, TRUE)

\* lines 130-135
select_bodyparts(S, bodyparts) ==
  { [parts |-> { bodyparts[i] : i \in DOMAIN bodyparts },
     primary |-> IF bodyparts = <<>> THEN None ELSE bodyparts[1],
     hitbox |-> None] }

\* lines 137-141
select_hitbox_clearing(S, hitbox) ==
  { [parts |-> {}, primary |-> None, hitbox |-> hitbox] }
select_hitbox(S, hitbox) == { [S EXCEPT !.hitbox = hitbox] }

SelectionInit ==
  /\ NoEditor
  /\ NoSelection
  /\ d_result = None
  /\ NoGeom
  /\ NoDraw
  /\ m_last = None
  /\ NoBounds
  /\ NoHistory

SelectionBecomes(S) ==
  /\ _selected_parts' = S.parts
  /\ _primary_part' = S.primary
  /\ _selected_hitbox' = S.hitbox

SelectionOnly ==
  UNCHANGED <<managerVars, _entity, current_filepath, _is_modified,
              ref_combo, manager_first, steps, d_result, geomVars,
              drawVars, m_last, boundsVars, historyVars>>

SelectBodypart ==
  /\ \E bodypart \in SelParts \cup {None}, additive \in BOOLEAN :
        \E S \in select_bodypart(Selected, bodypart, additive) : SelectionBecomes(S)
  /\ SelectionOnly

SetSelection ==
  /\ \E bodypart \in SelParts :
        \E S \in set_selection(Selected, bodypart) : SelectionBecomes(S)
  /\ SelectionOnly

AddToSelection ==
  /\ \E bodypart \in SelParts :
        \E S \in add_to_selection(Selected, bodypart) : SelectionBecomes(S)
  /\ SelectionOnly

ToggleSelection ==
  /\ \E bodypart \in SelParts :
        \E S \in toggle_selection(Selected, bodypart) : SelectionBecomes(S)
  /\ SelectionOnly

SelectBodyparts ==
  /\ \E bodyparts \in SeqsUpTo(SelParts, MaxSelList) :
        \E S \in select_bodyparts(Selected, bodyparts) : SelectionBecomes(S)
  /\ SelectionOnly

SelectHitbox ==
  /\ \E hitbox \in SelHitboxes \cup {None} :
        \E S \in select_hitbox(Selected, hitbox) : SelectionBecomes(S)
  /\ SelectionOnly

ClearSelection ==
  /\ \E S \in clear_selection(Selected) : SelectionBecomes(S)
  /\ SelectionOnly

SelectionNext ==
  \/ SelectBodypart \/ SetSelection \/ AddToSelection \/ ToggleSelection
  \/ SelectBodyparts \/ SelectHitbox \/ ClearSelection

SpecSelection == SelectionInit /\ [][SelectionNext]_vars

\* a float that is a multiple of 1/4 below 2^21: sums, differences and
\* halves of a few such values need far fewer than MantissaBits bits
OnGrid(x) == \A i \in x.bits : i >= -2 /\ i <= 20

GridVec(v) == OnGrid(v.x) /\ OnGrid(v.y)

GridPart(bp) == GridVec(bp.position) /\ GridVec(bp.size) /\ GridVec(bp.pivot_offset)

GridBounds(t) ==
  t # None => \A k \in DOMAIN calculate_entity_bounds(t) :
                 OnGrid(calculate_entity_bounds(t)[k])

\* C8 (as claimed): after every call of _update_ref_geometry, whatever the
\* body part's position, size and pivot_offset and whatever the target's
\* bounds, position + size/2 + pivot_offset equals on both axes the value it
\* had before the call.
C8_PivotPreservedAnyFloat ==
  \A i \in DOMAIN g_trace :
     WorldPivot(g_trace[i].after) = WorldPivot(g_trace[i].before)

\* C8 (amended): the same equality, for body parts and target bounds whose
\* coordinates are multiples of 1/4 below 2^21 (the integer and half-integer
\* values the editor itself produces), where the float arithmetic is exact.
C8_PivotPreservedOnGrid ==
  \A i \in DOMAIN g_trace :
     (GridPart(g_trace[i].before) /\ GridBounds(g_target))
       => WorldPivot(g_trace[i].after) = WorldPivot(g_trace[i].before)

\* C8 witness: a call on grid values that moved the body part and resized it
C8_Witness ==
  \E i \in DOMAIN g_trace :
     /\ GridPart(g_trace[i].before) /\ GridBounds(g_target)
     /\ g_trace[i].ret
     /\ g_trace[i].after.position # g_trace[i].before.position
     /\ g_trace[i].after.size # g_trace[i].before.size

\* C9: a second call in a row, the referenced definition unchanged, returns
\* False and leaves position, size and pivot_offset as the first call left
\* them.
C9_SecondCallIdempotent ==
  Len(g_trace) >= 2 =>
     /\ ~g_trace[2].raised
     /\ g_trace[2].ret = FALSE
     /\ g_trace[2].after = g_trace[1].after

\* C10: a call that returns, returns True exactly when size, pivot_offset
\* or position ends different from before; a call that returns False wrote
\* nothing; no call changes any other field.
C10_ReturnsChangedExactly ==
  \A i \in DOMAIN g_trace :
     LET b == g_trace[i].before
         a == g_trace[i].after
     IN  /\ ~g_trace[i].raised =>
              (g_trace[i].ret <=> (a.size # b.size \/ a.pivot_offset # b.pivot_offset
                                     \/ a.position # b.position))
         /\ (~g_trace[i].raised /\ ~g_trace[i].ret) => a = b
         /\ a = [b EXCEPT !.size = a.size, !.pivot_offset = a.pivot_offset,
                          !.position = a.position]

\* C10 witness: a first call that changed only the pivot_offset and the
\* position and returned True, then a second call that returned False
C10_Witness ==
  /\ Len(g_trace) = 2
  /\ g_trace[1].ret /\ g_trace[1].after.size = g_trace[1].before.size
  /\ g_trace[1].after.pivot_offset # g_trace[1].before.pivot_offset
  /\ ~g_trace[2].ret /\ ~g_trace[2].raised

\* one axis of what reconciliation is to leave behind: the size w, the
\* pivot offset -(min + w/2) and the position world_pivot - w/2 - offset,
\* the world pivot taken from the fields before the call
ReconciledAxis(pos0, size0, off0, min, w, pos1, size1, off1) ==
  /\ size1 = w
  /\ off1 = FNeg(FAdd(min, FHalf(w)))
  /\ pos1 = FSub(FSub(FAdd(FAdd(pos0, FHalf(size0)), off0), FHalf(w)), off1)

ReconciledTo(e, b) ==
  /\ ~e.raised
  /\ Len(b) = 4
  /\ ReconciledAxis(e.before.position.x, e.before.size.x, e.before.pivot_offset.x,
                    b[1], b[3],
                    e.after.position.x, e.after.size.x, e.after.pivot_offset.x)
  /\ ReconciledAxis(e.before.position.y, e.before.size.y, e.before.pivot_offset.y,
                    b[2], b[4],
                    e.after.position.y, e.after.size.y, e.after.pivot_offset.y)

\* C11: every call of _update_ref_geometry on a Reference body part whose
\* target resolves ends with size = (w, h), pivot_offset = (-(min_x + w/2),
\* -(min_y + h/2)) and position = world_pivot - (w/2, h/2) - pivot_offset
\* for the bounds (min_x, min_y, w, h) of the target, the world pivot being
\* that of the body part before the call.
C11_ReconciledToBounds ==
  \A i \in DOMAIN g_trace :
     (g_target # None /\ g_trace[i].before.entity_ref # "")
       => ReconciledTo(g_trace[i], calculate_entity_bounds(g_target))

\* ------------------------------------------------------------------------
\* Reachability over the definition files, computed as a fixed point and
\* independently of the resolver
\* ------------------------------------------------------------------------
\* the file a reference name stands for, "" if there is none
FileOf(ref_name) ==
  IF \E f \in FileNames : disk[f] # None /\ (ref_name = f \/ ref_name = Ext(f))
  THEN CHOOSE f \in FileNames : disk[f] # None /\ (ref_name = f \/ ref_name = Ext(f))
  ELSE ""

RefsOf(entity) ==
  { entity.body_parts[i].entity_ref :
      i \in { j \in DOMAIN entity.body_parts :
                IsRef(entity.body_parts[j]) /\ entity.body_parts[j].entity_ref # "" } }

\* the names the definition of ref_name refers to
DirectRefs(ref_name) ==
  IF FileOf(ref_name) = "" THEN {} ELSE RefsOf(disk[FileOf(ref_name)])

RECURSIVE ReachFrom(_)
ReachFrom(S) ==
  IF UNION { DirectRefs(m) : m \in S } \subseteq S THEN S
  ELSE ReachFrom(S \cup UNION { DirectRefs(m) : m \in S })

\* the names reachable in one or more steps from the definition of name
Reachable(name) == ReachFrom(DirectRefs(name))

\* C3: get_all_dependencies(name), called without a visited argument,
\* returns exactly the names reachable in one or more steps along the
\* entity_ref of ENTITY_REF body parts from the definition of name, on every
\* reference graph: chains, diamonds and cycles.
C3_DependenciesAreReachable ==
  d_result # None => d_result.deps = Reachable(d_result.name)

\* C3 witness: A refers to B and C, B to C (two branches share C, a chain
\* A-B-C) and C back to A (a cycle); the call on A returned all three
C3_Witness ==
  /\ d_result # None
  /\ d_result.name = "A"
  /\ DirectRefs("A") = {"B", "C"}
  /\ "C" \in DirectRefs("B")
  /\ "A" \in DirectRefs("C")
  /\ d_result.deps = {"A", "B", "C"}


\* no name occurs twice in the sequence
NoDuplicates(s) == \A i, j \in DOMAIN s : s[i] = s[j] => i = j

\* C26 as stated: in one top-level call of get_all_dependencies no name is
\* expanded (its definition fetched and its body parts walked) twice.
C26_ExpandedAtMostOnce ==
  d_result # None => NoDuplicates(d_result.walks)

\* C26: a top-level call of get_all_dependencies makes at most one recursive
\* call per distinct referenced name, so it ends after at most one
\* expansion of the name it was called with and one of every name referred
\* to; the name it was called with is never in visited at the start and is
\* expanded a second time when a cycle leads back to it.
C26_ReferencedNamesExpandedOnce ==
  d_result # None =>
    /\ d_result.walks[1] = d_result.name
    /\ NoDuplicates(Tail(d_result.walks))
    /\ { d_result.walks[i] : i \in 2 .. Len(d_result.walks) }
         = Reachable(d_result.name)

\* C26 witness: A refers to B and C, B to C and C back to A; the call on A
\* expanded C once although two body parts lead to it, and A twice
C26_Witness ==
  /\ d_result # None
  /\ d_result.walks = <<"A", "B", "C", "A">>
  /\ DirectRefs("A") = {"B", "C"}
  /\ DirectRefs("B") = {"C"}
  /\ DirectRefs("C") = {"A"}

\* C1: after any sequence of editor operations no definition on disk
\* depends on itself, directly or transitively, through the entity_ref of
\* its ENTITY_REF body parts.
C1_NoStoredCycle ==
  \A f \in FileNames : \A m \in Reachable(f) : FileOf(m) # f

\* the manager as it was when the combo box was filled
ComboWorld == [World EXCEPT !.index = ref_combo.index, !.cache = ref_combo.cache]

C4_CacheCoherent ==
  \A f \in FileNames :
     _cache[f] # None => (_cache[f].fresh /\ _cache[f].ent = disk[f])

\* C4 witness: the save evicted the cached definition of the saved file and
\* a later get_entity_def has cached the file again
C4_Witness ==
  /\ last_event.saved # ""
  /\ last_event.evicted
  /\ _cache[last_event.saved] # None
  /\ _cache[last_event.saved].fresh

BoundsSize(entity) ==
  Vec2(calculate_entity_bounds(entity)[Len(calculate_entity_bounds(entity)) - 1],
       calculate_entity_bounds(entity)[Len(calculate_entity_bounds(entity))])

\* C6: once the save of N has been processed, every ENTITY_REF body part of
\* the open definition whose entity_ref is N or N.entdef has the width and
\* height of the bounds of N as its size.
C6_ReferencesReconciled ==
  last_event.saved # "" =>
     \A i \in DOMAIN _entity.body_parts :
        (IsRef(_entity.body_parts[i])
           /\ _entity.body_parts[i].entity_ref
                \in {last_event.saved, Ext(last_event.saved)})
        => _entity.body_parts[i].size = BoundsSize(disk[last_event.saved])

\* C7: processing one save reports the document as modified exactly once
\* when a reconciliation returned True, and not at all otherwise.
C7_ModifiedOncePerChange ==
  last_event.saved # "" =>
     /\ last_event.changed > 0 => last_event.reports = 1
     /\ last_event.reports > 0 => last_event.changed > 0


\* C29: when a save has completed and every subscriber of entity_saved has
\* run, the document is not marked as modified.
C29_SavedIsUnmodified == last_event.saved # "" => ~_is_modified

\* C12: whenever the traversal starts to draw the definition a Reference
\* body part embeds, the origin of that definition lies, in the coordinates
\* of the definition that holds the body part, at position + size/2 +
\* pivot_offset, whatever the body part's flip_x, flip_y and pixel_scale.
C12_OriginAtWorldPivot ==
  (p_event # None /\ p_event.kind = "reference")
     => p_event.origin = WorldPivot(p_event.bp)

\* the calls on the stack that have passed the depth guard
Processing == { k \in DOMAIN p_stack : p_stack[k].i >= 1 }

\* C17: the traversal of nested references never handles the body parts of
\* a definition more than 10 reference levels below the root, and it ends
\* on every reference graph, cycles included.
C17_TraversalEndsWithinDepth ==
  /\ [](\A k \in Processing : p_stack[k].depth <= 10)
  /\ <>p_done

\* C17 witness: on a cycle the call at level 11 has just returned at its
\* guard, ten nested definitions being drawn above the root
C17_Witness ==
  /\ p_event # None
  /\ p_event.kind = "cut"
  /\ p_event.depth = 11
  /\ Len(p_stack) = 11
  /\ \A k \in DOMAIN p_stack : p_stack[k].depth = k - 1

\* ------------------------------------------------------------------------
\* The rectangles that count for the bounds of a definition, as a set
\* ------------------------------------------------------------------------
Rect(x, y, w, h) == [x0 |-> x, y0 |-> y, x1 |-> FAdd(x, w), y1 |-> FAdd(y, h)]

VisibleParts(e) ==
  { e.body_parts[i] : i \in { j \in DOMAIN e.body_parts : e.body_parts[j].visible } }

EnabledHitboxes(e) ==
  { e.entity_hitboxes[i] :
      i \in { j \in DOMAIN e.entity_hitboxes : e.entity_hitboxes[j].enabled } }

Rects(e) ==
  { Rect(bp.position.x, bp.position.y, bp.size.x, bp.size.y) : bp \in VisibleParts(e) }
    \cup
  { Rect(FAdd(e.pivot.x, F(hb.x)), FAdd(e.pivot.y, F(hb.y)),
         F(hb.width), F(hb.height)) : hb \in EnabledHitboxes(e) }

Least(S) == CHOOSE m \in S : \A v \in S : ~FLess(v, m)

Greatest(S) == CHOOSE m \in S : \A v \in S : ~FLess(m, v)

AtLeast16(v) == IF FLess(v, F(16)) THEN F(16) ELSE v

\* the axis-aligned union of a set of rectangles
UnionBox(R) ==
  IF R = {} THEN NoBox
  ELSE [found |-> TRUE,
        min_x |-> Least({ r.x0 : r \in R }), min_y |-> Least({ r.y0 : r \in R }),
        max_x |-> Greatest({ r.x1 : r \in R }),
        max_y |-> Greatest({ r.y1 : r \in R })]

\* C13: calculate_entity_bounds on a definition with no body parts and no
\* enabled hitbox returns four components, the width and the height both
\* 64.
C13_EmptyReportsDefaultBox ==
  \A i \in DOMAIN b_trace :
     (b_trace[i].entity.body_parts = <<>> /\ EnabledHitboxes(b_trace[i].entity) = {})
       => /\ Len(b_trace[i].ret) = 4
          /\ b_trace[i].ret[3] = F(64)
          /\ b_trace[i].ret[4] = F(64)

FlooredBox(ret, box) ==
  /\ Len(ret) = 4
  /\ ret[1] = box.min_x
  /\ ret[2] = box.min_y
  /\ ret[3] = AtLeast16(FSub(box.max_x, box.min_x))
  /\ ret[4] = AtLeast16(FSub(box.max_y, box.min_y))

IsVisible(bp) == bp.visible

IsEnabled(hb) == hb.enabled

\* the definition without its hidden body parts and disabled hitboxes
Contributing(e) ==
  [e EXCEPT !.body_parts = SelectSeq(@, IsVisible),
            !.entity_hitboxes = SelectSeq(@, IsEnabled)]

AsSprite(bp) == [bp EXCEPT !.part_type = "SIMPLE", !.entity_ref = ""]

AsSprites(e) == [e EXCEPT !.body_parts = MapSeq(AsSprite, @)]

Unresolved(c) == c.name = "" \/ ~c.project \/ c.path = ""

\* the call asked the loader for a file it raises on or returns nothing for
LoadFailed(c) == c.loads # <<>> /\ ~IsDefinition(c.disk[c.loads[1]])

NotFatal(c) ==
  /\ Len(c.loads) <= 1
  /\ Unresolved(c) => (c.ret = None /\ c.loads = <<>>)
  /\ LoadFailed(c) => (c.ret = None /\ c.cache[c.loads[1]] = None)
  /\ (~Unresolved(c) /\ c.path \in c.failed) => c.loads = <<c.path>>

\* C18: get_entity_def returns None for the empty name, without a project,
\* for a name that leads to no path and when the loader raises or returns
\* nothing; a failed load leaves the cache without an entry for the path,
\* and the next call for a path whose load failed asks the loader again.
C18_BrokenReferenceIsNotFatal == m_last.call # None => NotFatal(m_last.call)

\* C18 witness: the loader returned nothing for the path once, and the
\* call after that asked it again and returned None again
C18_Witness ==
  /\ m_last.call # None
  /\ ~Unresolved(m_last.call)
  /\ m_last.call.path \in m_last.call.failed
  /\ m_last.call.disk[m_last.call.path] = Blank
  /\ m_last.call.loads = <<m_last.call.path>>
  /\ m_last.call.ret = None

\* the path of the call has been loaded since it was last invalidated
Held(c) == ~Unresolved(c) /\ c.held[c.path] # None

ServedFromCache(c) == c.loads = <<>> /\ c.ret = c.held[c.path].ent

\* C19: once the loader has returned a definition for a path, every call
\* of get_entity_def whose name leads to that path returns that definition
\* without asking the loader, until the path is saved or the cache cleared.
C19_LoadedOncePerInvalidation ==
  (m_last.call # None /\ Held(m_last.call)) => ServedFromCache(m_last.call)

\* C19 witness: A was loaded under its bare name; the file has gone since,
\* and the call with the file name A.entdef returns what was loaded
C19_Witness ==
  /\ m_last.call # None
  /\ Held(m_last.call)
  /\ m_last.call.name = Ext("A")
  /\ m_last.call.held[m_last.call.path].name = "A"
  /\ m_last.call.disk[m_last.call.path] = None
  /\ m_last.call.ret = SpriteDef

\* the paths of the files that bear the name the call was made with
FilesNamed(c) ==
  { p \in Paths : c.disk[p] # None
                  /\ (c.name = NameOf(p) \/ c.name = Ext(NameOf(p))) }

\* the only file of the name is a definition created since the last scan
OnlyFileIsNew(c) ==
  /\ c.project
  /\ \E p \in c.created : FilesNamed(c) = {p} /\ IsDefinition(c.disk[p])

\* C20: a definition file created after the directories were last scanned
\* is found by the next get_entity_def for its name.
C20_CreatedFileIsFound ==
  (m_last.call # None /\ OnlyFileIsNew(m_last.call)) => m_last.call.ret # None

\* The scans of a call: one when a project is set, the name is not empty
\* and the index has no path for it, none otherwise; and a new file under
\* a name the index has no path for is found.
RescansOnMissOnly ==
  m_last.call # None =>
    /\ m_last.call.scans =
         IF m_last.call.project /\ m_last.call.name # ""
            /\ m_last.call.before = "" THEN 1 ELSE 0
    /\ (OnlyFileIsNew(m_last.call) /\ m_last.call.before = "")
         => m_last.call.ret # None

\* a call that found a file created since the last scan
RescanFindsNewFile ==
  /\ m_last.call # None
  /\ OnlyFileIsNew(m_last.call)
  /\ m_last.call.before = ""
  /\ m_last.call.scans = 1
  /\ m_last.call.ret = SpriteDef

\* the index has a path for a name only if that file is there
OnlyPresentFiles(index, files) ==
  \A n \in FileNames : index[n] # "" => files[index[n]] # None

\* C21: after the scan that a lookup miss triggers, the index maps a name
\* to a path only if that file was in the scanned directories at that scan.
C21_IndexHoldsScannedFilesOnly ==
  (m_last.call # None /\ m_last.call.scans > 0)
     => OnlyPresentFiles(m_last.call.index, m_last.call.disk)

\* every file of the directories is in the index under its name
AllPresentFiles(index, files) ==
  \A p \in Paths : files[p] # None => index[NameOf(p)] # ""

\* the returned definition came from a load made since the last set_project
LoadedSinceSwitch(c) ==
  c.ret # None => (c.loads = <<c.path>> \/ c.held[c.path] # None)

\* C22: right after set_project the cache is empty and the index holds the
\* files of the scanned directories and nothing else; every cache entry
\* was loaded after the last set_project, and so was every definition that
\* get_entity_def returns.
C22_NothingSurvivesProjectSwitch ==
  /\ m_last.op = "set_project"
       => /\ _cache = NoCache
          /\ OnlyPresentFiles(_name_to_path, disk)
          /\ AllPresentFiles(_name_to_path, disk)
  /\ \A p \in Paths : _cache[p] # None => m_last.held[p] # None
  /\ m_last.call # None => LoadedSinceSwitch(m_last.call)

\* C22 witness: a path that was cached when set_project was called is
\* asked for afterwards and loaded again
C22_Witness ==
  /\ m_last.op = "get_entity_def"
  /\ m_last.prior # None
  /\ m_last.call.path # ""
  /\ m_last.prior.cache[m_last.call.path] # None
  /\ m_last.call.loads = <<m_last.call.path>>
  /\ m_last.call.ret # None

Newest(s, n) == IF Len(s) <= n THEN s ELSE SubSeq(s, Len(s) - n + 1, Len(s))

\* C24: get_history_size() never exceeds max_size, and a call that stores a
\* command or sets max_size keeps the newest commands: it drops from the
\* oldest end only.
C24_HistoryWithinMaxSize ==
  /\ get_history_size(HistoryNow) <= _max_size
  /\ h_book.new # 0 =>
       Ids(_commands)
         = Newest(Append(SubSeq(h_book.had, 1, h_book.index_before + 1),
                         h_book.new), _max_size)
  /\ h_book.op = "set_max_size" /\ ~h_book.raised =>
       Ids(_commands) = Newest(h_book.had, _max_size)

\* C24 witness: the history was full with nothing undone, a command was
\* executed and the oldest command is the one that went
C24_Witness ==
  /\ h_book.op = "execute"
  /\ h_book.new # 0
  /\ _max_size = MaxHistorySize
  /\ Len(h_book.had) = _max_size
  /\ h_book.index_before = Len(h_book.had) - 1
  /\ Ids(_commands) = Append(Tail(h_book.had), h_book.new)

\* the command the last undo undid, the command the last redo applied
Undone == _commands[_current_index + 2]

Redone == _commands[_current_index + 1]

\* C25: undo of a finalized snapshot command leaves every field of the
\* entity and of its body parts as it was when the snapshot was made, and
\* execute leaves it as it was when the snapshot was finalized, however
\* often the two alternate and whatever was changed in between.
C25_SnapshotRestoresBothStates ==
  /\ h_book.op = "undo" /\ h_book.ret /\ Undone.kind = "snapshot" =>
       deepcopy(h_entity, h_heap) = h_book.marks[Undone.id].created
  /\ h_book.op = "redo" /\ h_book.ret /\ Redone.kind = "snapshot" =>
       deepcopy(h_entity, h_heap) = h_book.marks[Redone.id].finalized

\* C25 witness: the only command ever made is a snapshot around a change of
\* the position of the body part; it was undone, which made object 2 with
\* the old position, object 2 was then changed directly, and the redo
\* brought the position of the finalize back
C25_Witness ==
  /\ h_book.op = "redo" /\ h_book.ret
  /\ h_book.serial = 1
  /\ Redone.kind = "snapshot"
  /\ h_book.marks[1].created.body_parts = <<[position |-> 0]>>
  /\ h_book.marks[1].finalized.body_parts = <<[position |-> 1]>>
  /\ Len(h_heap) = 3
  /\ h_heap[2].position = 1
  /\ h_entity.body_parts = <<3>>

\* C27: a command stored by execute or end_change while commands could be
\* redone leaves nothing to redo: can_redo() is False, the new command is
\* the last one, and none of the commands that could be redone is kept.
C27_NewCommandDiscardsRedo ==
  h_book.new # 0 /\ h_book.index_before < Len(h_book.had) - 1 =>
    /\ ~can_redo(HistoryNow)
    /\ _commands # <<>>
    /\ _commands[Len(_commands)].id = h_book.new
    /\ \A i \in h_book.index_before + 2 .. Len(h_book.had) :
          h_book.had[i] \notin IdSet(_commands)

\* C27 witness: two commands were undone when end_change stored a snapshot
C27_Witness ==
  /\ h_book.op = "end_change"
  /\ h_book.new # 0
  /\ Len(h_book.had) = 2
  /\ h_book.index_before = -1
  /\ Ids(_commands) = <<h_book.new>>

\* C28: the commands up to _current_index are the retained commands whose
\* effect is on the entity, those after it the undone ones; and redo()
\* never applies a command that was executed after a command dropped from
\* the history while undone.
C28_IndexSplitsAppliedFromUndone ==
  /\ \A i \in DOMAIN _commands :
        (i <= _current_index + 1) <=> (_commands[i].id \in h_book.applied)
  /\ h_book.op = "redo" /\ h_book.ret => Redone.id \notin h_book.missing

\* the primary body part is one of the selected ones, and None exactly
\* when none is selected
PrimaryIsSelected ==
  /\ _selected_parts # {} => _primary_part \in _selected_parts
  /\ _primary_part = None <=> _selected_parts = {}

\* C30: after any sequence of selection operations the primary body part
\* is a member of the selected set whenever that set is not empty and is
\* None exactly when it is empty, and select_hitbox leaves the selected set
\* and the primary body part as they are.
C30_PrimaryAmongSelected ==
  /\ []PrimaryIsSelected
  /\ [][SelectHitbox => UNCHANGED <<_selected_parts, _primary_part>>]_vars

\* C30 witness: three body parts are selected, the primary is one of them
\* and a hitbox is selected beside
C30_Witness ==
  /\ Cardinality(_selected_parts) = 3
  /\ _primary_part \in _selected_parts
  /\ _selected_hitbox # None

====
